---------------------------- MODULE Spec2Model ----------------------------
(***************************************************************************)
(* A model of the Redis-like key-value server: the RESP parser, the        *)
(* expiring store and its reaper, the per-connection dispatcher loops of   *)
(* the master and of the replica, write propagation and the handshake.     *)
(*                                                                         *)
(* Bytes are one-character strings.  A text is a sequence of cells         *)
(* [ch, n]: the byte ch repeated n times (n > 1 only for runs of NUL, so   *)
(* a 1024-byte buffer stays small).                                        *)
(***************************************************************************)
EXTENDS Naturals, Integers, Sequences, FiniteSets, TLC

(***************************************************************************)
(* Bounds of the model.                                                    *)
(***************************************************************************)
MaxTime == 2
MaxReads == 3
MaxSlaves == 2
MaxHeap == 2
NumConns == 2

(***************************************************************************)
(* Program constants.                                                      *)
(***************************************************************************)
BufSize == 1024
U16Max == 65535
IdleSleepMillis == 10000

\* The zero byte (TLA+ has no escape for it).
NUL == "NUL"
\* The byte 0xFF, which no UTF-8 text contains.
XFF == "XFF"
CR == "\r"
LF == "\n"

None == <<>>
Some(x) == <<x>>

(***************************************************************************)
(* Texts: run-length encoded byte strings.                                 *)
(***************************************************************************)
Cell(c, k) == [ch |-> c, n |-> k]

Text(chars) == [i \in 1..Len(chars) |-> Cell(chars[i], 1)]

Nuls(k) == IF k = 0 THEN <<>> ELSE <<Cell(NUL, k)>>

RECURSIVE BLen(_)
BLen(t) == IF t = <<>> THEN 0 ELSE Head(t).n + BLen(Tail(t))

RECURSIVE BTake(_, _)
BTake(t, k) ==
    IF k = 0 \/ t = <<>> THEN <<>>
    ELSE IF Head(t).n <= k THEN <<Head(t)>> \o BTake(Tail(t), k - Head(t).n)
    ELSE <<Cell(Head(t).ch, k)>>

RECURSIVE BDrop(_, _)
BDrop(t, k) ==
    IF k = 0 \/ t = <<>> THEN t
    ELSE IF Head(t).n <= k THEN BDrop(Tail(t), k - Head(t).n)
    ELSE <<Cell(Head(t).ch, Head(t).n - k)>> \o Tail(t)

\* Adjacent runs of NUL merged: one text, one representation.
RECURSIVE Norm(_)
Norm(t) ==
    IF Len(t) < 2 THEN t
    ELSE IF t[1].ch = NUL /\ t[2].ch = NUL
         THEN Norm(<<Cell(NUL, t[1].n + t[2].n)>> \o Tail(Tail(t)))
         ELSE <<t[1]>> \o Norm(Tail(t))

\* std::str::from_utf8(&buffer) is Ok.
from_utf8(t) == \A i \in 1..Len(t) : t[i].ch # XFF

\* The characters of a text without its NUL bytes.
Sanitize(t) ==
    LET kept == SelectSeq(t, LAMBDA c : c.ch # NUL)
    IN  [i \in 1..Len(kept) |-> kept[i].ch]

\* str.split("\r\n").filter(|line| !line.is_empty())
RECURSIVE SplitFrom(_, _, _, _)
SplitFrom(chars, i, cur, acc) ==
    IF i > Len(chars) THEN (IF cur = <<>> THEN acc ELSE Append(acc, cur))
    ELSE IF chars[i] = CR /\ i < Len(chars) /\ chars[i + 1] = LF
         THEN SplitFrom(chars, i + 2, <<>>,
                        IF cur = <<>> THEN acc ELSE Append(acc, cur))
         ELSE SplitFrom(chars, i + 1, Append(cur, chars[i]), acc)

SplitLines(chars) == SplitFrom(chars, 1, <<>>, <<>>)

(***************************************************************************)
(* Numbers and letter case.                                                *)
(***************************************************************************)
DigitChars == <<"0", "1", "2", "3", "4", "5", "6", "7", "8", "9">>

IsDigit(c) == \E d \in 1..10 : DigitChars[d] = c

DigitVal(c) == (CHOOSE d \in 1..10 : DigitChars[d] = c) - 1

\* format!("{}", n) of an unsigned number
RECURSIVE Digits(_)
Digits(n) ==
    IF n < 10 THEN <<DigitChars[n + 1]>>
    ELSE Append(Digits(n \div 10), DigitChars[(n % 10) + 1])

\* str::parse::<usize>: a non-empty run of digits
RECURSIVE DigitsVal(_, _)
DigitsVal(chars, acc) ==
    IF chars = <<>> THEN acc
    ELSE DigitsVal(Tail(chars), acc * 10 + DigitVal(Head(chars)))

IsNumber(chars) == chars # <<>> /\ \A i \in 1..Len(chars) : IsDigit(chars[i])

UpperChars == <<"A", "B", "C", "D", "E", "F", "G", "H", "I", "J", "K", "L", "M",
                "N", "O", "P", "Q", "R", "S", "T", "U", "V", "W", "X", "Y", "Z">>

LowerChars == <<"a", "b", "c", "d", "e", "f", "g", "h", "i", "j", "k", "l", "m",
                "n", "o", "p", "q", "r", "s", "t", "u", "v", "w", "x", "y", "z">>

LowerChar(c) ==
    IF \E i \in 1..26 : UpperChars[i] = c
    THEN LowerChars[CHOOSE i \in 1..26 : UpperChars[i] = c]
    ELSE c

to_lowercase(chars) == [i \in 1..Len(chars) |-> LowerChar(chars[i])]

starts_with(chars, prefix) ==
    /\ Len(chars) >= Len(prefix)
    /\ SubSeq(chars, 1, Len(prefix)) = prefix

(***************************************************************************)
(* Commands.  exp is None or Some(absolute timestamp).                     *)
(***************************************************************************)
Cmd(op, args, exp) == [op |-> op, args |-> args, exp |-> exp]

Ping == Cmd("Ping", <<>>, None)
Pong == Cmd("Pong", <<>>, None)
Echo(s) == Cmd("Echo", <<s>>, None)
Get(k) == Cmd("Get", <<k>>, None)
Set(k, v, e) == Cmd("Set", <<k, v>>, e)
Info(section) == Cmd("Info", section, None)
Replconf(args) == Cmd("Replconf", args, None)
AdminReplicate(data) == Cmd("AdminReplicate", <<data>>, None)
AdminAddSlave(data) == Cmd("AdminAddSlave", <<data>>, None)

NoCmd == Cmd("None", <<>>, None)

\* A dispatcher that would hand every command to replicate_to_slaves.
is_any_operation(cmd) == cmd.op = cmd.op

is_write_operation(cmd) == cmd.op = "Set"

(***************************************************************************)
(* The parser.  lines is the sequence of non-empty lines, pos the          *)
(* iterator's position; a step returns its value and the next position.    *)
(***************************************************************************)
POk(v, p) == [ok |-> TRUE, val |-> v, pos |-> p, err |-> ""]
PErr(e) == [ok |-> FALSE, val |-> <<>>, pos |-> 0, err |-> e]

extract_line(lines, pos, prefix) ==
    IF pos > Len(lines) THEN PErr("Invalid protocol format")
    ELSE IF Head(lines[pos]) = prefix THEN POk(Tail(lines[pos]), pos + 1)
    ELSE PErr("Expected line to start with prefix")

parse_array_length(lines, pos) ==
    LET l == extract_line(lines, pos, "*")
    IN  IF ~l.ok THEN l
        ELSE IF ~IsNumber(l.val) THEN PErr("Invalid array length")
        ELSE IF DigitsVal(l.val, 0) < 1
             THEN PErr("Command array must have at least one element")
        ELSE POk(DigitsVal(l.val, 0), l.pos)

parse_argument(lines, pos, name) ==
    LET l == extract_line(lines, pos, "$")
    IN  IF ~l.ok THEN l
        ELSE IF l.pos > Len(lines) THEN PErr(name)
        ELSE POk(lines[l.pos], l.pos + 1)

millis_to_timestamp_from_now(millis, t) == t + millis

parse_expiry(lines, pos, t) ==
    LET l == extract_line(lines, pos, "$")
    IN  IF ~l.ok THEN l
        ELSE IF l.pos > Len(lines) THEN PErr("Expiry value not found")
        ELSE IF ~IsNumber(lines[l.pos]) THEN PErr("Invalid expiry format")
        ELSE POk(millis_to_timestamp_from_now(DigitsVal(lines[l.pos], 0), t),
                 l.pos + 1)

handle_echo_command(lines, pos, array_length) ==
    IF array_length < 2 THEN PErr("ECHO command requires an argument")
    ELSE LET a == parse_argument(lines, pos, "Argument not found")
         IN  IF ~a.ok THEN a ELSE POk(Echo(a.val), a.pos)

handle_get_command(lines, pos, array_length) ==
    IF array_length < 2 THEN PErr("GET command requires one argument")
    ELSE LET k == parse_argument(lines, pos, "Key not found")
         IN  IF ~k.ok THEN k ELSE POk(Get(k.val), k.pos)

handle_set_command(lines, pos, array_length, t) ==
    IF array_length < 3 THEN PErr("SET command requires at least two arguments")
    ELSE
      LET k == parse_argument(lines, pos, "Key not found")
      IN  IF ~k.ok THEN k ELSE
      LET v == parse_argument(lines, k.pos, "Value not found")
      IN  IF ~v.ok THEN v ELSE
      IF array_length >= 5
      THEN LET px == parse_argument(lines, v.pos, "PX Indicator not found")
           IN  IF ~px.ok THEN px
               ELSE IF to_lowercase(px.val) = <<"p", "x">>
                    THEN LET e == parse_expiry(lines, px.pos, t)
                         IN  IF ~e.ok THEN e
                             ELSE POk(Set(k.val, v.val, Some(e.val)), e.pos)
                    ELSE POk(Set(k.val, v.val, None), px.pos)
      ELSE POk(Set(k.val, v.val, None), v.pos)

handle_info_command(lines, pos, array_length) ==
    IF array_length > 1
    THEN LET s == parse_argument(lines, pos, "Section not found")
         IN  IF ~s.ok THEN s ELSE POk(Info(<<s.val>>), s.pos)
    ELSE POk(Info(<<>>), pos)

handle_admin_command(lines, pos, array_length) ==
    LET ty == parse_argument(lines, pos, "Command Type not found")
    IN  IF ~ty.ok THEN ty ELSE
    LET data == parse_argument(lines, ty.pos, "Data not found")
    IN  IF ~data.ok THEN data
        ELSE IF ty.val = <<"r", "e", "p", "l", "i", "c", "a", "t", "e">>
             THEN POk(AdminReplicate(data.val), data.pos)
        ELSE IF ty.val = <<"a", "d", "d", "s", "l", "a", "v", "e">>
             THEN POk(AdminAddSlave(data.val), data.pos)
        ELSE PErr("Unknown admin command")

RECURSIVE CollectArguments(_, _, _, _)
CollectArguments(lines, pos, count, acc) ==
    IF count = 0 THEN POk(acc, pos)
    ELSE LET a == parse_argument(lines, pos, "Argument not found")
         IN  IF ~a.ok THEN a
             ELSE CollectArguments(lines, a.pos, count - 1, Append(acc, a.val))

handle_replconf_command(lines, pos, array_length) ==
    LET args == CollectArguments(lines, pos, array_length - 1, <<>>)
    IN  IF ~args.ok THEN args ELSE POk(Replconf(args.val), args.pos)

\* The verb table of parse_array_command and parse_bulk_string_command.
dispatch_verb(verb, lines, pos, array_length, t) ==
    CASE verb = <<"p", "i", "n", "g">> -> POk(Ping, pos)
      [] verb = <<"p", "o", "n", "g">> -> POk(Pong, pos)
      [] verb = <<"e", "c", "h", "o">> -> handle_echo_command(lines, pos, array_length)
      [] verb = <<"s", "e", "t">> -> handle_set_command(lines, pos, array_length, t)
      [] verb = <<"g", "e", "t">> -> handle_get_command(lines, pos, array_length)
      [] verb = <<"i", "n", "f", "o">> -> handle_info_command(lines, pos, array_length)
      [] verb = <<"r", "e", "p", "l", "c", "o", "n", "f">> ->
            handle_replconf_command(lines, pos, array_length)
      [] verb = <<"r", "e", "p", "l", "i", "c", "a", "t", "e">> ->
            handle_admin_command(lines, pos, array_length)
      [] verb = <<"a", "d", "d", "s", "l", "a", "v", "e">> ->
            handle_admin_command(lines, pos, array_length)
      [] OTHER -> PErr("Unknown Redis command")

parse_array_command(lines, t) ==
    LET n == parse_array_length(lines, 1)
    IN  IF ~n.ok THEN n ELSE
    LET l == extract_line(lines, n.pos, "$")
    IN  IF ~l.ok THEN l
        ELSE IF l.pos > Len(lines) THEN PErr("Command not found")
        ELSE dispatch_verb(to_lowercase(lines[l.pos]), lines, l.pos + 1, n.val, t)

\* The argument count each verb is given in the bulk-string form.
BulkArity(verb) == IF verb = <<"s", "e", "t">> THEN 3 ELSE 2

parse_bulk_string_command(lines, t) ==
    LET l == extract_line(lines, 1, "$")
    IN  IF ~l.ok THEN l
        ELSE IF ~IsNumber(l.val) THEN PErr("Invalid bulk string length")
        ELSE IF l.pos > Len(lines) THEN PErr("Command not found")
        ELSE dispatch_verb(to_lowercase(lines[l.pos]), lines, l.pos + 1,
                           BulkArity(to_lowercase(lines[l.pos])), t)

\* RedisCommandParser::parse of a buffer read at clock time t.
parse(buffer, t) ==
    LET lines == SplitLines(Sanitize(buffer))
    IN  IF lines = <<>> THEN PErr("Empty buffer")
        ELSE IF Head(lines[1]) = "*" THEN parse_array_command(lines, t)
        ELSE IF Head(lines[1]) = "$" THEN parse_bulk_string_command(lines, t)
        ELSE PErr("Invalid protocol format")

(***************************************************************************)
(* Responses (RedisCommandResponse).                                       *)
(***************************************************************************)
CRLF == <<CR, LF>>

\* A response that would carry its text as a simple string.
RedisCommandResponse_simple(message) == <<"+">> \o message \o CRLF

RedisCommandResponse_new(message) ==
    IF message = <<>> THEN <<"$", "-", "1">> \o CRLF
    ELSE <<"$">> \o Digits(Len(message)) \o CRLF \o message \o CRLF

RedisCommandResponse_null == <<"$", "-", "1">> \o CRLF

RedisCommandResponse_error(message) == <<"-">> \o message \o CRLF

OK == <<"O", "K">>
PONG == <<"P", "O", "N", "G">>
PING == <<"P", "I", "N", "G">>

(***************************************************************************)
(* The store (RedisStore): a map key -> [value, expiry] and the expiry     *)
(* index, a min-heap of <<timestamp, key>>, kept here as the sorted        *)
(* sequence of its entries: peek is its head, pop drops its head.          *)
(***************************************************************************)
AsciiOrder == <<"$", "*", "+", "-", "0", "1", "2", "3", "4", "5", "6", "7", "8",
                "9", ":">> \o UpperChars \o LowerChars

Ord(c) == CHOOSE i \in 1..Len(AsciiOrder) : AsciiOrder[i] = c

\* String's ordering: lexicographic by byte.
RECURSIVE StrLess(_, _)
StrLess(a, b) ==
    IF b = <<>> THEN FALSE
    ELSE IF a = <<>> THEN TRUE
    ELSE IF Head(a) = Head(b) THEN StrLess(Tail(a), Tail(b))
    ELSE Ord(Head(a)) < Ord(Head(b))

\* An ordering that would put the latest timestamp first.
EntryMore(x, y) == x[1] > y[1] \/ (x[1] = y[1] /\ StrLess(y[2], x[2]))

\* The ordering of (u64, String) pairs.
EntryLess(x, y) == x[1] < y[1] \/ (x[1] = y[1] /\ StrLess(x[2], y[2]))

\* An index that would take no entry.
HeapPushDrops(ex, item) == IF item = item THEN ex ELSE ex

RECURSIVE HeapPush(_, _)
HeapPush(ex, item) ==
    IF ex = <<>> THEN <<item>>
    ELSE IF EntryLess(item, Head(ex)) THEN <<item>> \o ex
    ELSE <<Head(ex)>> \o HeapPush(Tail(ex), item)

Entry(v, e) == [value |-> v, expiry |-> e]

StoreInsert(st, k, v, e) ==
    [x \in DOMAIN st \cup {k} |-> IF x = k THEN Entry(v, e) ELSE st[x]]

\* A remove that would clear the whole map.
StoreClear(st, k) == [x \in DOMAIN st \ (DOMAIN st \cup {k}) |-> st[x]]

\* A remove that would leave the entry where it is.
StoreKeep(st, k) == [x \in DOMAIN st |-> st[x]]

StoreRemove(st, k) == [x \in DOMAIN st \ {k} |-> st[x]]

EmptyStore == [x \in {} |-> Entry(<<>>, None)]

\* A set that would write the value and keep the expiry the key had.
StoreSetKeepsExpiry(st, ex, k, v, e) ==
    [store |-> StoreInsert(st, k, v, IF k \in DOMAIN st THEN st[k].expiry ELSE e),
     expirations |-> IF e # None THEN HeapPush(ex, <<e[1], k>>) ELSE ex]

\* RedisStore::set
StoreSet(st, ex, k, v, e) ==
    [store |-> StoreInsert(st, k, v, e),
     expirations |-> IF e # None THEN HeapPush(ex, <<e[1], k>>) ELSE ex]

\* The first half of RedisStore::get, under the read lock: the entry is
\* missing, expired (the caller goes on to remove) or live.
GetExpired(st, k, t) ==
    k \in DOMAIN st /\ st[k].expiry # None /\ t >= st[k].expiry[1]

GetValue(st, k) == IF k \in DOMAIN st THEN Some(st[k].value) ELSE None

\* An index that would never report an entry.
no_expiration(ex) == IF ex = <<>> THEN None ELSE None

\* RedisStore::next_expiration
next_expiration(ex) == IF ex = <<>> THEN None ELSE Some(Head(ex)[1])

\* A sweep that would pop the entries that are due and remove no key.
clean_expired_keys_pops_only(st, ex, t) ==
    [store |-> st,
     expirations |-> SubSeq(ex, Cardinality({i \in 1..Len(ex) : ex[i][1] <= t}) + 1,
                            Len(ex))]

\* RedisStore::clean_expired_keys at clock time t
RECURSIVE clean_expired_keys(_, _, _)
clean_expired_keys(st, ex, t) ==
    IF ex # <<>> /\ Head(ex)[1] <= t
    THEN clean_expired_keys(StoreRemove(st, Head(ex)[2]), Tail(ex), t)
    ELSE [store |-> st, expirations |-> ex]

(***************************************************************************)
(* What a client can send.                                                 *)
(***************************************************************************)
BulkString(chars) == <<"$">> \o Digits(Len(chars)) \o CRLF \o chars \o CRLF

RECURSIVE BulkStrings(_)
BulkStrings(args) ==
    IF args = <<>> THEN <<>> ELSE BulkString(Head(args)) \o BulkStrings(Tail(args))

\* The array form: *N, then every argument with its $len header.
ArrayFrame(args) == Text(<<"*">> \o Digits(Len(args)) \o CRLF \o BulkStrings(args))

\* The degenerate form: no array header.
BulkFrame(args) == Text(BulkStrings(args))

SET == <<"S", "E", "T">>
GET == <<"G", "E", "T">>
PX == <<"P", "X">>
KeyK == <<"k">>
ValA == <<"a">>
ValB == <<"b">>

StoreFrames ==
    { ArrayFrame(<<SET, KeyK, ValA>>),
      ArrayFrame(<<SET, KeyK, ValB, PX, <<"1">>>>),
      ArrayFrame(<<GET, KeyK>>) }

(***************************************************************************)
(* State.                                                                  *)
(***************************************************************************)
VARIABLES
    now,          \* the clock, in milliseconds (now_millis)
    inputs,       \* the frames clients of the master send in this run
    store,        \* the master's RedisStore.store
    expirations,  \* the master's RedisStore.expirations
    lastSet,      \* history: per key, the entry the latest set wrote
    slaves,       \* Master.slaves, the replica registry
    mutex,        \* the holder of the Mutex<Master> (0: free)
    mpc,          \* per master connection: where its task is
    mcmd,         \* per master connection: the decoded command
    mstr,         \* per master connection: buffer_str of the current request
    mresp,        \* per master connection: the response of the last command
    mreads,       \* requests the master has read so far, over all connections
    rpc,          \* the reaper: where expiry_worker is
    rwake,        \* the reaper: the time its sleep ends
    mid,          \* history: per master connection, the number of its request
    appliedLog,   \* history: the requests whose Set the master applied, in order
    midx,         \* per master connection: its place in replicate_to_slaves' loop
    mouts,        \* history: per connection, how each send of the loop ended
    sentLog,      \* history: the requests delivered to the replica, in order
    fpc,          \* the replica's task for an accepted connection: where it is
    finbox,       \* bytes the peer wrote that the task has not read yet
    fbuf,         \* that task's buffer
    fcmd,         \* the command that task decoded last
    freply,       \* the bytes that task wrote last
    sstore,       \* the replica's RedisStore.store
    sexpirations, \* the replica's RedisStore.expirations
    sapplied,     \* history: the writes the replica applied
    sreads,       \* frames the replica's client has written so far
    usent,        \* history: the commands replconf sent to the master
    hpc,          \* the replica's handshake task: where it is
    hsent,        \* history: the commands the handshake wrote on its stream
    mbuf,         \* per master connection: its read buffer
    mlast,        \* history: per master connection, the fate of its last request
    rwoke,        \* history: the sleep the reaper woke from and has not swept since
    hgot,         \* history: the reply the replica read from the master last
    hfailedAt,    \* history: the client frames written when the handshake failed
    codec,        \* the round trip of one command through the codec
    master_replid, \* RedisInfo.master_replid of the master
    locks         \* the two RwLocks of the master's RedisStore and the calls in flight

storeVars == <<store, expirations, lastSet>>
connVars == <<mpc, mcmd, mstr, mresp, mreads>>
reaperVars == <<rpc, rwake>>
loopVars == <<midx, mouts, sentLog>>
feedVars == <<fpc, finbox, fbuf, fcmd, freply>>
replicaVars == <<sstore, sexpirations, sapplied>>
slaveVars == <<sreads, usent, hpc, hsent>>
auxVars == <<mbuf, mlast, rwoke, hgot, hfailedAt, codec, master_replid, locks>>

vars == <<now, inputs, slaves, mutex, mid, appliedLog, storeVars, connVars,
          reaperVars, loopVars, feedVars, replicaVars, slaveVars, auxVars>>

MConns == 1..NumConns

\* The reaper among the tasks that call the store.
Reaper == 0
Tasks == MConns \cup {Reaper}

\* No call of the store in flight, both locks free.
NoCalls ==
    [pc |-> [t \in Tasks |-> "idle"],
     key |-> [t \in Tasks |-> <<>>],
     value |-> [t \in Tasks |-> <<>>],
     expiry |-> [t \in Tasks |-> None],
     store_write |-> {},
     store_read |-> {},
     expirations_write |-> {},
     expirations_read |-> {},
     calls |-> 0]

MasterInit ==
    /\ now = 0
    /\ store = EmptyStore
    /\ expirations = <<>>
    /\ lastSet = EmptyStore
    /\ slaves = <<>>
    /\ mutex = 0
    /\ mpc = [c \in MConns |-> "read"]
    /\ mcmd = [c \in MConns |-> NoCmd]
    /\ mstr = [c \in MConns |-> <<>>]
    /\ mresp = [c \in MConns |-> <<>>]
    /\ mreads = 0
    /\ rpc = "loop"
    /\ rwake = 0
    /\ mid = [c \in MConns |-> 0]
    /\ appliedLog = <<>>
    /\ midx = [c \in MConns |-> 0]
    /\ mouts = [c \in MConns |-> <<>>]
    /\ sentLog = <<>>
    /\ mbuf = [c \in MConns |-> Nuls(BufSize)]
    /\ mlast = [c \in MConns |-> "answered"]
    /\ rwoke = "none"

\* Slave::new, and no connection from the master yet.
ReplicaInit ==
    /\ fpc = "closed"
    /\ finbox = <<>>
    /\ fbuf = <<>>
    /\ fcmd = NoCmd
    /\ freply = <<>>
    /\ sstore = EmptyStore
    /\ sexpirations = <<>>
    /\ sapplied = {}
    /\ sreads = 0
    /\ usent = <<>>
    /\ hpc = "start"
    /\ hsent = <<>>
    /\ hgot = <<>>
    /\ hfailedAt = -1

\* RedisInfo::new draws master_replid at random: 40 characters out of
\* [A-Za-z0-9].  Two of the ids it can draw.
ReplIdLen == 40
ReplIds == {[i \in 1..ReplIdLen |-> "a"], [i \in 1..ReplIdLen |-> "Z"]}
ReplIdA == [i \in 1..ReplIdLen |-> "a"]

\* No command is on its way through the codec.
NoTrip == [pc |-> "off", first |-> NoCmd, wire |-> <<>>, second |-> PErr("")]

Init == MasterInit /\ ReplicaInit /\ codec = NoTrip /\ master_replid = ReplIdA /\ locks = NoCalls /\ inputs = StoreFrames

(***************************************************************************)
(* The clock.                                                              *)
(***************************************************************************)
\* A millisecond passes (within the horizon of the model).
Tick ==
    /\ now < MaxTime
    /\ now' = now + 1
    /\ UNCHANGED <<inputs, store, expirations, lastSet, slaves, mutex,
                   mpc, mcmd, mstr, mresp, mreads, rpc, rwake>>
    /\ UNCHANGED <<mid, appliedLog, loopVars, feedVars, replicaVars, slaveVars>>
    /\ UNCHANGED auxVars

\* Time passes until the reaper's idle sleep is over.
TickIdle ==
    /\ rpc = "idle"
    /\ now <= MaxTime
    /\ now < rwake
    /\ now' = rwake
    /\ UNCHANGED <<inputs, store, expirations, lastSet, slaves, mutex,
                   mpc, mcmd, mstr, mresp, mreads, rpc, rwake>>
    /\ UNCHANGED <<mid, appliedLog, loopVars, feedVars, replicaVars, slaveVars>>
    /\ UNCHANGED auxVars

(***************************************************************************)
(* A master connection task (start_master_server).                         *)
(***************************************************************************)
\* The lock as it would be if it excluded nobody.
MutexFreeNoExclusion == TRUE

\* redis_clone.lock().await returns once nobody holds the Mutex<Master>.
MutexFree == mutex = 0

\* One read: the frame lands on the front of the buffer.  A buffer that is
\* not UTF-8 is left as it is and the request dropped; otherwise buffer_str
\* is the whole buffer, the buffer is zeroed, and buffer_str is parsed.  (The
\* lock taken for the log line that follows guards nothing: the command's
\* next lock, in replicate or handle, waits for the same holder.)
MRead(c) ==
    /\ mpc[c] = "read"
    /\ mreads < MaxReads
    /\ \E f \in inputs :
          LET buffer_str == Norm(f \o BDrop(mbuf[c], BLen(f)))
              valid == from_utf8(buffer_str)
              r == IF valid THEN parse(buffer_str, now)
                   ELSE PErr("Invalid UTF-8 sequence")
          IN  /\ mreads' = mreads + 1
              /\ mbuf' = [mbuf EXCEPT ![c] =
                             IF valid THEN Nuls(BufSize) ELSE buffer_str]
              /\ IF r.ok
                 THEN /\ mcmd' = [mcmd EXCEPT ![c] = r.val]
                      /\ mid' = [mid EXCEPT ![c] = mreads + 1]
                      /\ mstr' = [mstr EXCEPT ![c] = buffer_str]
                      /\ mpc' = [mpc EXCEPT ![c] =
                                   IF is_write_operation(r.val)
                                   THEN "replicate" ELSE "handle"]
                      /\ mlast' = [mlast EXCEPT ![c] = "executing"]
                 ELSE /\ UNCHANGED <<mcmd, mstr, mpc, mid>>
                      /\ mlast' = [mlast EXCEPT ![c] = "dropped"]
    /\ UNCHANGED <<now, inputs, store, expirations, lastSet, slaves, mutex,
                   mresp, rpc, rwake>>
    /\ UNCHANGED <<appliedLog, loopVars, feedVars, replicaVars, slaveVars>>
    /\ UNCHANGED <<rwoke, hgot, hfailedAt, codec, master_replid, locks>>

\* replicate_to_slaves over an empty registry: the lock is taken and
\* released with nothing sent.
MReplicateNone(c) ==
    /\ mpc[c] = "replicate"
    /\ MutexFree
    /\ slaves = <<>>
    /\ mpc' = [mpc EXCEPT ![c] = "handle"]
    /\ UNCHANGED <<now, inputs, store, expirations, lastSet, slaves, mutex,
                   mcmd, mstr, mresp, mreads, rpc, rwake>>
    /\ UNCHANGED <<mid, appliedLog, loopVars, feedVars, replicaVars, slaveVars>>
    /\ UNCHANGED auxVars

\* Master::handle_command of Set, under the Mutex<Master>.
MHandleSet(c) ==
    /\ mpc[c] = "handle"
    /\ MutexFree
    /\ mcmd[c].op = "Set"
    /\ mcmd[c].exp # None => Len(expirations) < MaxHeap
    /\ LET k == mcmd[c].args[1]
           v == mcmd[c].args[2]
           s == StoreSet(store, expirations, k, v, mcmd[c].exp)
       IN  /\ store' = s.store
           /\ expirations' = s.expirations
           /\ lastSet' = StoreInsert(lastSet, k, v, mcmd[c].exp)
    /\ appliedLog' = Append(appliedLog, mid[c])
    /\ mresp' = [mresp EXCEPT ![c] = RedisCommandResponse_new(OK)]
    /\ mpc' = [mpc EXCEPT ![c] = "respond"]
    /\ UNCHANGED <<now, inputs, slaves, mutex, mcmd, mstr, mreads, rpc, rwake>>
    /\ UNCHANGED <<mid, loopVars, feedVars, replicaVars, slaveVars>>
    /\ UNCHANGED auxVars

\* Master::handle_command of Get: store.get under the read lock.  An
\* expired entry sends the task on to remove, the Mutex<Master> still held.
MHandleGet(c) ==
    /\ mpc[c] = "handle"
    /\ MutexFree
    /\ mcmd[c].op = "Get"
    /\ LET k == mcmd[c].args[1]
       IN  IF GetExpired(store, k, now)
           THEN /\ mutex' = c
                /\ mpc' = [mpc EXCEPT ![c] = "get_remove"]
                /\ UNCHANGED mresp
           ELSE /\ mresp' = [mresp EXCEPT ![c] =
                               IF GetValue(store, k) = None
                               THEN RedisCommandResponse_null
                               ELSE RedisCommandResponse_new(GetValue(store, k)[1])]
                /\ mpc' = [mpc EXCEPT ![c] = "respond"]
                /\ UNCHANGED mutex
    /\ UNCHANGED <<now, inputs, store, expirations, lastSet, slaves,
                   mcmd, mstr, mreads, rpc, rwake>>
    /\ UNCHANGED <<mid, appliedLog, loopVars, feedVars, replicaVars, slaveVars>>
    /\ UNCHANGED auxVars

\* The second half of store.get: self.remove(key), then None.
MGetRemove(c) ==
    /\ mpc[c] = "get_remove"
    /\ mutex = c
    /\ store' = StoreRemove(store, mcmd[c].args[1])
    /\ mutex' = 0
    /\ mresp' = [mresp EXCEPT ![c] = RedisCommandResponse_null]
    /\ mpc' = [mpc EXCEPT ![c] = "respond"]
    /\ UNCHANGED <<now, inputs, expirations, lastSet, slaves,
                   mcmd, mstr, mreads, rpc, rwake>>
    /\ UNCHANGED <<mid, appliedLog, loopVars, feedVars, replicaVars, slaveVars>>
    /\ UNCHANGED auxVars

\* stream.write_all(response) returns Ok: the loop reads again.
MRespond(c) ==
    /\ mpc[c] = "respond"
    /\ mpc' = [mpc EXCEPT ![c] = "read"]
    /\ mcmd' = [mcmd EXCEPT ![c] = NoCmd]
    /\ mstr' = [mstr EXCEPT ![c] = <<>>]
    /\ mresp' = [mresp EXCEPT ![c] = <<>>]
    /\ mid' = [mid EXCEPT ![c] = 0]
    /\ mouts' = [mouts EXCEPT ![c] = <<>>]
    /\ UNCHANGED <<now, inputs, store, expirations, lastSet, slaves, mutex,
                   mreads, rpc, rwake>>
    /\ mlast' = [mlast EXCEPT ![c] = "answered"]
    /\ UNCHANGED <<appliedLog, midx, sentLog, feedVars, replicaVars, slaveVars>>
    /\ UNCHANGED <<mbuf, rwoke, hgot, hfailedAt, codec, master_replid, locks>>

(***************************************************************************)
(* The reaper (Master::expiry_worker).                                     *)
(***************************************************************************)
ReaperPeek ==
    /\ rpc = "loop"
    /\ LET nx == next_expiration(expirations)
       IN  IF nx = None
           THEN /\ rpc' = "idle"
                /\ rwake' = now + IdleSleepMillis
           ELSE IF nx[1] > now
                THEN /\ rpc' = "sleep"
                     /\ rwake' = nx[1]
                ELSE /\ rpc' = "clean"
                     /\ rwake' = rwake
    /\ UNCHANGED <<now, inputs, store, expirations, lastSet, slaves, mutex,
                   mpc, mcmd, mstr, mresp, mreads>>
    /\ UNCHANGED <<mid, appliedLog, loopVars, feedVars, replicaVars, slaveVars>>
    /\ UNCHANGED auxVars

\* sleep_until(expiry_time) is over: on to clean_expired_keys.
ReaperWake ==
    /\ rpc = "sleep"
    /\ now >= rwake
    /\ rpc' = "clean"
    /\ rwake' = 0
    /\ rwoke' = "timed"
    /\ UNCHANGED <<now, inputs, store, expirations, lastSet, slaves, mutex,
                   mpc, mcmd, mstr, mresp, mreads>>
    /\ UNCHANGED <<mid, appliedLog, loopVars, feedVars, replicaVars, slaveVars>>
    /\ UNCHANGED <<mbuf, mlast, hgot, hfailedAt, codec, master_replid, locks>>

\* sleep(10 s) is over: back to the top of the loop.
ReaperIdleWake ==
    /\ rpc = "idle"
    /\ now >= rwake
    /\ rpc' = "loop"
    /\ rwake' = 0
    /\ rwoke' = "idle"
    /\ UNCHANGED <<now, inputs, store, expirations, lastSet, slaves, mutex,
                   mpc, mcmd, mstr, mresp, mreads>>
    /\ UNCHANGED <<mid, appliedLog, loopVars, feedVars, replicaVars, slaveVars>>
    /\ UNCHANGED <<mbuf, mlast, hgot, hfailedAt, codec, master_replid, locks>>

ReaperClean ==
    /\ rpc = "clean"
    /\ LET s == clean_expired_keys(store, expirations, now)
       IN  /\ store' = s.store
           /\ expirations' = s.expirations
    /\ rpc' = "loop"
    /\ rwoke' = "none"
    /\ UNCHANGED <<now, inputs, lastSet, slaves, mutex,
                   mpc, mcmd, mstr, mresp, mreads, rwake>>
    /\ UNCHANGED <<mid, appliedLog, loopVars, feedVars, replicaVars, slaveVars>>
    /\ UNCHANGED <<mbuf, mlast, hgot, hfailedAt, codec, master_replid, locks>>

Next ==
    \/ Tick
    \/ TickIdle
    \/ \E c \in MConns : MRead(c)
    \/ \E c \in MConns : MReplicateNone(c)
    \/ \E c \in MConns : MHandleSet(c)
    \/ \E c \in MConns : MHandleGet(c)
    \/ \E c \in MConns : MGetRemove(c)
    \/ \E c \in MConns : MRespond(c)
    \/ ReaperPeek
    \/ ReaperWake
    \/ ReaperIdleWake
    \/ ReaperClean

Spec == Init /\ [][Next]_vars
(***************************************************************************)
(* Claims about the store and the reaper, checked under Spec.              *)
(***************************************************************************)
\* The Get of connection c is answered in this step.
GetAnswered(c) ==
    /\ mcmd[c].op = "Get"
    /\ mpc[c] \in {"handle", "get_remove"}
    /\ mpc'[c] = "respond"

\* C1: a sweep (clean_expired_keys) never deletes a key whose currently
\* recorded expiry is still in the future; its entry is left as it is.
C1_SweepKeepsUnexpired ==
    [][(rpc = "clean" /\ rpc' = "loop") =>
          \A k \in DOMAIN store :
              (store[k].expiry # None /\ store[k].expiry[1] > now) =>
                  (k \in DOMAIN store' /\ store'[k] = store[k])]_vars

\* C4: the delete that a get triggers after finding its key expired never
\* removes a fresh entry: whenever a get is between its expiry check and its
\* remove, the key's entry is absent or still an expired one, whatever sets
\* other connections attempt meanwhile.
C4_GetDeleteAtomic ==
    \A c \in MConns :
        mpc[c] = "get_remove" =>
            LET k == mcmd[c].args[1]
            IN  k \in DOMAIN store =>
                    (store[k].expiry # None /\ store[k].expiry[1] <= now)

\* C4's case: a get has found its key expired while another connection has
\* decoded a set of the same key, with no expiry or one in the future.
C4_Witness ==
    \E c, d \in MConns :
        /\ c # d
        /\ mpc[c] = "get_remove"
        /\ mpc[d] \in {"replicate", "handle"}
        /\ mcmd[d].op = "Set"
        /\ mcmd[d].args[1] = mcmd[c].args[1]
        /\ (mcmd[d].exp = None \/ mcmd[d].exp[1] > now)

\* C5: after set(k, v) with no expiry, a following get(k) returns v: a Get
\* of a key whose latest set carried no expiry is answered with the bulk
\* string of that set's value.
C5_SetThenGet ==
    [][\A c \in MConns :
          LET k == mcmd[c].args[1]
          IN  (GetAnswered(c) /\ k \in DOMAIN lastSet
                 /\ lastSet[k].expiry = None) =>
                  mresp'[c] = RedisCommandResponse_new(lastSet[k].value)]_vars

\* C6: after set(k, v, px=D) at time t, a get(k) returns v at every time
\* before t+D and absent from t+D on, whether or not the reaper has swept.
C6_ExpiryWindow ==
    [][\A c \in MConns :
          LET k == mcmd[c].args[1]
          IN  (GetAnswered(c) /\ k \in DOMAIN lastSet
                 /\ lastSet[k].expiry # None) =>
                  mresp'[c] = IF now < lastSet[k].expiry[1]
                              THEN RedisCommandResponse_new(lastSet[k].value)
                              ELSE RedisCommandResponse_null]_vars
(***************************************************************************)
(* Replication: the master's propagate loop and the replica's side of the  *)
(* connection it opens.  A write arrives whole; a read takes what is there, *)
(* up to the size of the buffer.                                           *)
(***************************************************************************)
REPLICATE == <<"R", "E", "P", "L", "I", "C", "A", "T", "E">>
ADDSLAVE == <<"A", "D", "D", "S", "L", "A", "V", "E">>

\* The address the replica listens on, one nobody listens on, and one where
\* a peer accepts connections and never writes a byte.
LiveAddr == <<"r">>
DeadAddr == <<"x">>
SilentAddr == <<"s">>

\* TcpStream::connect(address) succeeds.
IsListening(address) == address = LiveAddr

\* TcpStream::connect(address) fails.
Refuses(address) == address = DeadAddr

\* command_to_send: "*2\r\n$9\r\nREPLICATE\r\n${len}\r\n{command}\r\n".
ReplicateFrame(command) ==
    Norm(Text(<<"*", "2">> \o CRLF \o <<"$", "9">> \o CRLF \o REPLICATE \o CRLF
              \o <<"$">> \o Digits(BLen(command)) \o CRLF)
         \o command \o Text(CRLF))

\* A send loop that would end, and fail the request, at the first error.
SendErrorAborts == FALSE

\* The Err of send_command is logged and the loop goes on to the next
\* address; replicate_to_slaves returns Ok(()) whatever happened.
SendErrorContinues == TRUE

Min(a, b) == IF a < b THEN a ELSE b

\* store.get where nothing runs between its check and its remove.
StoreGet(st, k, t) ==
    IF GetExpired(st, k, t)
    THEN [value |-> None, store |-> StoreRemove(st, k)]
    ELSE [value |-> GetValue(st, k), store |-> st]

\* A replica that would accept what only a master serves.
SlaveAdminAccepts(cmd) == RedisCommandResponse_new(OK)

\* Slave::handle_command, the Admin and Replconf arms.
SlaveAdminReply(cmd) ==
    IF cmd.op = "AdminReplicate"
    THEN RedisCommandResponse_error(
             <<"R", "e", "p", "l", "i", "c", "a", "t", "i", "o", "n", " ",
               "c", "o", "m", "m", "a", "n", "d", " ", "n", "o", "t", " ",
               "s", "u", "p", "p", "o", "r", "t", "e", "d", " ", "o", "n", " ",
               "s", "l", "a", "v", "e">>)
    ELSE IF cmd.op = "AdminAddSlave"
    THEN RedisCommandResponse_error(
             <<"A", "d", "d", "S", "l", "a", "v", "e", " ",
               "c", "o", "m", "m", "a", "n", "d", " ", "n", "o", "t", " ",
               "s", "u", "p", "p", "o", "r", "t", "e", "d", " ", "o", "n", " ",
               "s", "l", "a", "v", "e">>)
    ELSE RedisCommandResponse_error(
             <<"R", "E", "P", "L", "C", "O", "N", "F", " ",
               "c", "o", "m", "m", "a", "n", "d", " ", "n", "o", "t", " ",
               "s", "u", "p", "p", "o", "r", "t", "e", "d", " ", "o", "n", " ",
               "s", "l", "a", "v", "e">>)

\* Slave::handle_command for every command but Pong (which talks to the
\* master first): the response, and the store it leaves.
Slave_handle_command(cmd, st, ex, t) ==
    CASE cmd.op = "Ping" ->
            [resp |-> RedisCommandResponse_new(PONG), store |-> st,
             expirations |-> ex]
      [] cmd.op = "Echo" ->
            [resp |-> RedisCommandResponse_new(cmd.args[1]), store |-> st,
             expirations |-> ex]
      [] cmd.op = "Get" ->
            LET g == StoreGet(st, cmd.args[1], t)
            IN  [resp |-> IF g.value = None THEN RedisCommandResponse_null
                          ELSE RedisCommandResponse_new(g.value[1]),
                 store |-> g.store, expirations |-> ex]
      [] cmd.op = "Set" ->
            LET w == StoreSet(st, ex, cmd.args[1], cmd.args[2], cmd.exp)
            IN  [resp |-> RedisCommandResponse_new(OK), store |-> w.store,
                 expirations |-> w.expirations]
      [] cmd.op \in {"AdminReplicate", "AdminAddSlave", "Replconf"} ->
            [resp |-> SlaveAdminReply(cmd), store |-> st, expirations |-> ex]
\* The sub-verb of the admin frame that registers a replica.
AddSlaveWord == <<"a", "d", "d", "s", "l", "a", "v", "e">>

\* Where the second read of a propagated frame starts in buffer_str: the
\* first read takes the frame's header and the rest of the buffer's size.
SecondReadAt == BufSize - (BLen(ReplicateFrame(Nuls(BufSize))) - BufSize - 2)

\* One write of a client that holds a SET and, further on, a PING.
PipelinedFrame ==
    LET first == ArrayFrame(<<SET, KeyK, ValB>>)
    IN  Norm(first \o Nuls(SecondReadAt - BLen(first)) \o BulkFrame(<<PING>>))

ReplFrames ==
    { ArrayFrame(<<ADDSLAVE, AddSlaveWord, LiveAddr>>),
      ArrayFrame(<<ADDSLAVE, AddSlaveWord, DeadAddr>>),
      ArrayFrame(<<SET, KeyK, ValA>>),
      PipelinedFrame }

\* A registry that would take an address once only.
add_slave_once(registry, slave_address) ==
    IF \E i \in 1..Len(registry) : registry[i] = slave_address
    THEN registry
    ELSE Append(registry, slave_address)

\* Master::add_slave: self.slaves.push(slave_address).
add_slave(registry, slave_address) == Append(registry, slave_address)

\* Master::handle_command of Admin AddSlave: add_slave pushes the address.
MHandleAddSlave(c) ==
    /\ mpc[c] = "handle"
    /\ MutexFree
    /\ mcmd[c].op = "AdminAddSlave"
    /\ Len(slaves) < MaxSlaves
    /\ slaves' = add_slave(slaves, mcmd[c].args[1])
    /\ mresp' = [mresp EXCEPT ![c] = RedisCommandResponse_new(OK)]
    /\ mpc' = [mpc EXCEPT ![c] = "respond"]
    /\ UNCHANGED <<now, inputs, mutex, mid, appliedLog, storeVars,
                   mcmd, mstr, mreads, reaperVars, loopVars, feedVars,
                   replicaVars, slaveVars>>
    /\ UNCHANGED auxVars

\* replicate_to_slaves begins: the Mutex<Master> is taken for the whole loop.
MReplicateBegin(c) ==
    /\ mpc[c] = "replicate"
    /\ MutexFree
    /\ slaves # <<>>
    /\ mutex' = c
    /\ midx' = [midx EXCEPT ![c] = 1]
    /\ mpc' = [mpc EXCEPT ![c] = "send"]
    /\ UNCHANGED <<now, inputs, slaves, mid, appliedLog, storeVars,
                   mcmd, mstr, mresp, mreads, reaperVars, mouts, sentLog,
                   feedVars, replicaVars, slaveVars>>
    /\ UNCHANGED auxVars

\* send_command: connect and write_all.  The replica accepts the connection
\* with a task of its own and a zeroed buffer.
MSendConnect(c) ==
    /\ mpc[c] = "send"
    /\ midx[c] <= Len(slaves)
    /\ IsListening(slaves[midx[c]])
    /\ fpc = "closed"
    /\ fpc' = "read"
    /\ fbuf' = Nuls(BufSize)
    /\ finbox' = ReplicateFrame(mstr[c])
    /\ fcmd' = NoCmd
    /\ freply' = <<>>
    /\ sentLog' = Append(sentLog, mid[c])
    /\ mpc' = [mpc EXCEPT ![c] = "await"]
    /\ UNCHANGED <<now, inputs, slaves, mutex, mid, appliedLog, storeVars,
                   mcmd, mstr, mresp, mreads, reaperVars, midx, mouts,
                   replicaVars, slaveVars>>
    /\ UNCHANGED auxVars

\* send_command fails (here: nobody listens at the address).  A connect, a
\* write and a read error all leave send_command by the same Err.
MSendError(c) ==
    /\ mpc[c] = "send"
    /\ midx[c] <= Len(slaves)
    /\ Refuses(slaves[midx[c]])
    /\ IF SendErrorContinues
       THEN /\ midx' = [midx EXCEPT ![c] = midx[c] + 1]
            /\ mouts' = [mouts EXCEPT ![c] = Append(mouts[c], "err")]
            /\ UNCHANGED <<mutex, mpc, mcmd, mstr, mid>>
       ELSE /\ midx' = [midx EXCEPT ![c] = 0]
            /\ mouts' = [mouts EXCEPT ![c] = <<>>]
            /\ mutex' = 0
            /\ mpc' = [mpc EXCEPT ![c] = "read"]
            /\ mcmd' = [mcmd EXCEPT ![c] = NoCmd]
            /\ mstr' = [mstr EXCEPT ![c] = <<>>]
            /\ mid' = [mid EXCEPT ![c] = 0]
    /\ UNCHANGED <<now, inputs, slaves, appliedLog, storeVars, mresp, mreads,
                   reaperVars, sentLog, feedVars, replicaVars, slaveVars>>
    /\ UNCHANGED auxVars

\* send_command's read returns the replica's reply; the stream is dropped,
\* the replica's task reads 0 bytes and ends.
MRecv(c) ==
    /\ mpc[c] = "await"
    /\ freply # <<>>
    /\ midx' = [midx EXCEPT ![c] = midx[c] + 1]
    /\ mouts' = [mouts EXCEPT ![c] = Append(mouts[c], "ok")]
    /\ mpc' = [mpc EXCEPT ![c] = "send"]
    /\ fpc' = "closed"
    /\ finbox' = <<>>
    /\ fbuf' = <<>>
    /\ fcmd' = NoCmd
    /\ freply' = <<>>
    /\ UNCHANGED <<now, inputs, slaves, mutex, mid, appliedLog, storeVars,
                   mcmd, mstr, mresp, mreads, reaperVars, sentLog,
                   replicaVars, slaveVars>>
    /\ UNCHANGED auxVars

\* The loop is over: Ok(()), and the Mutex<Master> is released.
MSendDone(c) ==
    /\ mpc[c] = "send"
    /\ midx[c] > Len(slaves)
    /\ mutex' = 0
    /\ midx' = [midx EXCEPT ![c] = 0]
    /\ mpc' = [mpc EXCEPT ![c] = "handle"]
    /\ UNCHANGED <<now, inputs, slaves, mid, appliedLog, storeVars,
                   mcmd, mstr, mresp, mreads, reaperVars, mouts, sentLog,
                   feedVars, replicaVars, slaveVars>>
    /\ UNCHANGED auxVars

\* What the next read of the replica's task leaves in its buffer, and what
\* that buffer parses to.  The bytes read overwrite the front of the buffer.
FNext ==
    LET n == Min(BLen(finbox), BufSize)
        buffer == Norm(BTake(finbox, n) \o BDrop(fbuf, n))
    IN  [n |-> n, buffer |-> buffer, r |-> parse(buffer, now)]

\* The replica's task for an accepted connection: one pass of its loop.  A
\* buffer that does not parse is kept as it is for the next read; one that
\* does is handled, the response written and only then the buffer zeroed.
FRead ==
    /\ fpc = "read"
    /\ finbox # <<>>
    /\ LET nx == FNext
       IN  /\ ~(nx.r.ok /\ nx.r.val.op = "Pong")
           /\ finbox' = BDrop(finbox, nx.n)
           /\ IF nx.r.ok
              THEN LET cmd == nx.r.val
                       h == Slave_handle_command(cmd, sstore, sexpirations, now)
                   IN  /\ sstore' = h.store
                       /\ sexpirations' = h.expirations
                       /\ sapplied' =
                             IF cmd.op = "Set"
                             THEN sapplied \cup {<<cmd.args[1], cmd.args[2]>>}
                             ELSE sapplied
                       /\ fcmd' = cmd
                       /\ freply' = h.resp
                       /\ fbuf' = Nuls(BufSize)
              ELSE /\ fbuf' = nx.buffer
                   /\ fcmd' = NoCmd
                   /\ UNCHANGED <<freply, replicaVars>>
    /\ UNCHANGED <<now, inputs, slaves, mutex, mid, appliedLog, storeVars,
                   connVars, reaperVars, loopVars, fpc, slaveVars>>
    /\ UNCHANGED auxVars

InitRepl == MasterInit /\ ReplicaInit /\ codec = NoTrip /\ master_replid = ReplIdA /\ locks = NoCalls /\ inputs = ReplFrames

NextRepl ==
    \/ \E c \in MConns : MRead(c)
    \/ \E c \in MConns : MReplicateNone(c)
    \/ \E c \in MConns : MReplicateBegin(c)
    \/ \E c \in MConns : MSendConnect(c)
    \/ \E c \in MConns : MSendError(c)
    \/ \E c \in MConns : MRecv(c)
    \/ \E c \in MConns : MSendDone(c)
    \/ \E c \in MConns : MHandleSet(c)
    \/ \E c \in MConns : MHandleAddSlave(c)
    \/ \E c \in MConns : MRespond(c)
    \/ FRead

SpecRepl == InitRepl /\ [][NextRepl]_vars
(***************************************************************************)
(* Claims about replication, checked under SpecRepl.                       *)
(***************************************************************************)
\* Request i comes before request j in the log.
Before(log, i, j) ==
    \E p, q \in 1..Len(log) : p < q /\ log[p] = i /\ log[q] = j

InLog(log, i) == \E p \in 1..Len(log) : log[p] = i

\* C2: the order in which SETs are delivered to the replica is the order in
\* which the master applied them: of two requests both delivered and both
\* applied, the one applied first was not delivered after the other.
C2_DeliveryOrder ==
    \A i, j \in 1..MaxReads :
        (i # j /\ InLog(sentLog, i) /\ InLog(sentLog, j)
           /\ Before(appliedLog, i, j)) => ~Before(sentLog, j, i)

\* C3: a SET k v that the master executed after the registered replica
\* answered its propagation has been applied by the replica, which then
\* holds an entry for k to answer a GET with.
C3_ReplicaApplies ==
    \A c \in MConns :
        (mpc[c] = "respond" /\ mcmd[c].op = "Set"
           /\ \E i \in 1..Len(mouts[c]) : mouts[c][i] = "ok") =>
            /\ <<mcmd[c].args[1], mcmd[c].args[2]>> \in sapplied
            /\ mcmd[c].args[1] \in DOMAIN sstore

\* The propagate loop of connection c is left in this step.
LoopLeft(c) == mpc[c] = "send" /\ mpc'[c] \notin {"send", "await"}

\* C7: a failed send neither stops the loop nor fails the SET: the loop is
\* only left with every registry entry tried and every listening replica
\* answered, towards handle_command of the same SET, which applies it and
\* leaves the response OK.
C7_FailedSendGoesOn ==
    [][\A c \in MConns :
          /\ LoopLeft(c) =>
                /\ mpc'[c] = "handle"
                /\ mcmd'[c] = mcmd[c]
                /\ Len(mouts'[c]) = Len(slaves)
                /\ \A i \in 1..Len(slaves) :
                       IsListening(slaves[i]) => mouts'[c][i] = "ok"
          /\ (mpc[c] = "handle" /\ mcmd[c].op = "Set" /\ mpc'[c] # "handle") =>
                /\ mpc'[c] = "respond"
                /\ mresp'[c] = RedisCommandResponse_new(OK)
                /\ InLog(appliedLog', mid[c])
                /\ mcmd[c].args[1] \in DOMAIN store']_vars

\* C7's case: a SET is answered after a propagate loop whose first send
\* failed and whose second was delivered to the replica and answered.
C7_Witness ==
    \E c \in MConns :
        /\ mpc[c] = "respond"
        /\ mcmd[c].op = "Set"
        /\ mresp[c] = RedisCommandResponse_new(OK)
        /\ mouts[c] = <<"err", "ok">>
        /\ InLog(sentLog, mid[c])

Count(log, i) == Cardinality({p \in 1..Len(log) : log[p] = i})

\* C24: the registry is append-only.  AddSlave appends its address at the
\* end, whether or not the registry holds it already; no step removes or
\* reorders an entry, so the registry of every earlier state is a prefix of
\* the current one; and a SET leaves the propagate loop delivered once per
\* registry entry that listens, twice to an address added twice.
C24_RegistryAppendOnly ==
    [][/\ \A c \in MConns :
            (mpc[c] = "handle" /\ mcmd[c].op = "AdminAddSlave"
               /\ mpc'[c] = "respond") =>
                slaves' = slaves \o <<mcmd[c].args[1]>>
       /\ Len(slaves') >= Len(slaves)
       /\ SubSeq(slaves', 1, Len(slaves)) = slaves
       /\ \A c \in MConns :
            LoopLeft(c) =>
                Count(sentLog', mid[c]) =
                    Cardinality({i \in 1..Len(slaves) : IsListening(slaves[i])})]_vars

\* C24's case: the replica's address was added twice, and a SET has left
\* the propagate loop delivered to it twice.
C24_Witness ==
    \E c \in MConns :
        /\ slaves = <<LiveAddr, LiveAddr>>
        /\ mcmd[c].op = "Set"
        /\ mpc[c] = "handle"
        /\ mouts[c] = <<"ok", "ok">>
        /\ Count(sentLog, mid[c]) = 2
(***************************************************************************)
(* The replica: its handshake task, replconf, and a client of its own.     *)
(***************************************************************************)
REPLCONF == <<"R", "E", "P", "L", "C", "O", "N", "F">>
ReplicateWord == <<"r", "e", "p", "l", "i", "c", "a", "t", "e">>
ListeningPort == <<"l", "i", "s", "t", "e", "n", "i", "n", "g", "-", "p", "o", "r", "t">>
Capa == <<"c", "a", "p", "a">>
Psync2 == <<"p", "s", "y", "n", "c", "2">>
PlusOK == <<"+", "O", "K">>

\* RedisInfo.master_port of the replica, as given on its command line.
MasterPort == <<"6", "3", "7", "9">>

\* The array form of a command, as the replica writes it to the master.
to_resp2(cmd) ==
    LET words == IF cmd.op = "Ping" THEN <<PING>> ELSE <<REPLCONF>> \o cmd.args
    IN  <<"*">> \o Digits(Len(words)) \o CRLF \o BulkStrings(words)

\* master_port.parse::<u16>(), written back with to_string().
ParsePort(chars) ==
    IF IsNumber(chars) /\ DigitsVal(chars, 0) <= U16Max
    THEN Some(Digits(DigitsVal(chars, 0)))
    ELSE None

\* What the master's connection task answers a PING with.
PingReply == RedisCommandResponse_new(PONG)

\* What the handshake may read back after its PING: the master's answer, the
\* simple string +PONG (which the parser does not know), a reply that
\* parses to another command, or nothing at all (the connection was lost).
HandshakeReplies ==
    {PingReply, <<"+">> \o PONG \o CRLF, RedisCommandResponse_new(PING), <<>>}

\* What the replica may read back after a REPLCONF: a simple-string OK, the
\* bulk string every other command of the master is answered with, or
\* nothing at all.
ReplconfReplies == {PlusOK \o CRLF, RedisCommandResponse_new(OK), <<>>}

\* An AdminReplicate frame whose payload is a framed SET k a.
ReplicatePayloadFrame ==
    LET payload == ArrayFrame(<<SET, KeyK, ValA>>)
    IN  Norm(Text(<<"*", "3">> \o CRLF \o BulkStrings(<<REPLICATE, ReplicateWord>>)
                  \o <<"$">> \o Digits(BLen(payload)) \o CRLF)
             \o payload \o Text(CRLF))

SlaveFrames ==
    { ReplicatePayloadFrame,
      ArrayFrame(<<ADDSLAVE, AddSlaveWord, LiveAddr>>),
      ArrayFrame(<<REPLCONF, ListeningPort, MasterPort>>),
      ArrayFrame(<<SET, KeyK, ValB>>),
      ArrayFrame(<<GET, KeyK>>),
      ArrayFrame(<<PONG>>) }

\* A replica whose accept loop would end with the handshake's error.
ListenerStopsOnFailure == hpc = "failed"

\* The handshake runs in a task of its own: its error is printed and ends
\* that task only, the accept loop below it goes on.
ListenerStopped == FALSE

\* listener.accept(): a client connects and gets a task with a zeroed buffer.
SAccept ==
    /\ ~ListenerStopped
    /\ fpc = "closed"
    /\ fpc' = "read"
    /\ fbuf' = Nuls(BufSize)
    /\ UNCHANGED <<now, inputs, slaves, mutex, mid, appliedLog, storeVars,
                   connVars, reaperVars, loopVars, finbox, fcmd, freply,
                   replicaVars, slaveVars>>
    /\ UNCHANGED auxVars

\* The client writes one frame.
SClientWrite ==
    /\ fpc = "read"
    /\ finbox = <<>>
    /\ sreads < MaxReads
    /\ \E f \in inputs : finbox' = f
    /\ sreads' = sreads + 1
    /\ UNCHANGED <<now, inputs, slaves, mutex, mid, appliedLog, storeVars,
                   connVars, reaperVars, loopVars, fpc, fbuf, fcmd, freply,
                   replicaVars, usent, hpc, hsent>>
    /\ UNCHANGED auxVars

\* The task decodes a Pong: handle_command calls replconf, which parses the
\* port and sends REPLCONF listening-port to the master.
FPong ==
    /\ fpc = "read"
    /\ finbox # <<>>
    /\ LET nx == FNext
           port == ParsePort(MasterPort)
       IN  /\ nx.r.ok /\ nx.r.val.op = "Pong"
           /\ finbox' = BDrop(finbox, nx.n)
           /\ fbuf' = nx.buffer
           /\ fcmd' = nx.r.val
           /\ IF port = None
              THEN UNCHANGED <<fpc, usent>>
              ELSE /\ fpc' = "replconf_port"
                   /\ usent' = Append(usent,
                                  to_resp2(Replconf(<<ListeningPort, port[1]>>)))
    /\ UNCHANGED <<now, inputs, slaves, mutex, mid, appliedLog, storeVars,
                   connVars, reaperVars, loopVars, freply, replicaVars,
                   sreads, hpc, hsent>>
    /\ UNCHANGED auxVars

\* send_command_to_master returns inside replconf.  A reply that does not
\* start with +OK is an Err: nothing is written to the client and the buffer
\* is not zeroed.  After the first +OK, REPLCONF capa psync2 is sent; after
\* the second, the client is answered.
FReplconfReply ==
    /\ fpc \in {"replconf_port", "replconf_capa"}
    /\ \E response \in ReplconfReplies :
        /\ hgot' = response
        /\ IF starts_with(response, <<"+">>) /\ starts_with(response, PlusOK)
             THEN IF fpc = "replconf_port"
                  THEN /\ fpc' = "replconf_capa"
                       /\ usent' = Append(usent, to_resp2(Replconf(<<Capa, Psync2>>)))
                       /\ UNCHANGED <<fbuf, freply>>
                  ELSE /\ fpc' = "read"
                       /\ freply' = RedisCommandResponse_new(
                             <<"R", "E", "P", "L", "C", "O", "N", "F", " ",
                               "c", "o", "m", "m", "a", "n", "d", "s", " ",
                               "s", "e", "n", "t", " ",
                               "s", "u", "c", "c", "e", "s", "s", "f", "u", "l", "l", "y">>)
                       /\ fbuf' = Nuls(BufSize)
                       /\ UNCHANGED usent
             ELSE /\ fpc' = "read"
                  /\ UNCHANGED <<fbuf, freply, usent>>
    /\ UNCHANGED <<now, inputs, slaves, mutex, mid, appliedLog, storeVars,
                   connVars, reaperVars, loopVars, finbox, fcmd, replicaVars,
                   sreads, hpc, hsent>>
    /\ UNCHANGED <<mbuf, mlast, rwoke, hfailedAt, codec, master_replid, locks>>

\* handshake_with_master: connect, and write PING on the stream.
HSendPing ==
    /\ hpc = "start"
    /\ hpc' = "await_pong"
    /\ hsent' = Append(hsent, to_resp2(Ping))
    /\ UNCHANGED <<now, inputs, slaves, mutex, mid, appliedLog, storeVars,
                   connVars, reaperVars, loopVars, feedVars, replicaVars,
                   sreads, usent>>
    /\ UNCHANGED auxVars

\* The connect (or the write) fails: the task ends with the error.
HConnectError ==
    /\ hpc = "start"
    /\ hpc' = "failed"
    /\ hfailedAt' = sreads
    /\ UNCHANGED <<now, inputs, slaves, mutex, mid, appliedLog, storeVars,
                   connVars, reaperVars, loopVars, feedVars, replicaVars,
                   sreads, usent, hsent>>
    /\ UNCHANGED <<mbuf, mlast, rwoke, hgot, codec, master_replid, locks>>

\* The read returns: no bytes is an error; otherwise the bytes are parsed
\* and a Pong ends the handshake with "Handshake with master successful".
HRecv ==
    /\ hpc = "await_pong"
    /\ \E response \in HandshakeReplies :
          LET r == parse(Text(response), now)
              pong == response # <<>> /\ r.ok /\ r.val = Pong
          IN  /\ hgot' = response
              /\ hpc' = IF pong THEN "successful" ELSE "failed"
              /\ hfailedAt' = IF pong THEN hfailedAt ELSE sreads
    /\ UNCHANGED <<now, inputs, slaves, mutex, mid, appliedLog, storeVars,
                   connVars, reaperVars, loopVars, feedVars, replicaVars,
                   sreads, usent, hsent>>
    /\ UNCHANGED <<mbuf, mlast, rwoke, codec, master_replid, locks>>

InitSlave == MasterInit /\ ReplicaInit /\ codec = NoTrip /\ master_replid = ReplIdA /\ locks = NoCalls /\ inputs = SlaveFrames

NextSlave ==
    \/ SAccept
    \/ SClientWrite
    \/ FRead
    \/ FPong
    \/ FReplconfReply
    \/ HSendPing
    \/ HConnectError
    \/ HRecv

SpecSlave == InitSlave /\ [][NextSlave]_vars
(***************************************************************************)
(* Claims about the replica, checked under SpecSlave.                      *)
(***************************************************************************)
\* The replica's task decodes and handles a command in this step.
Handled == fpc = "read" /\ finbox # <<>> /\ finbox' # finbox /\ fcmd' # NoCmd

\* C8: a replica that receives AdminReplicate, AdminAddSlave or REPLCONF on
\* a client connection answers with an error reply (one that starts with
\* "-") and leaves its store, its expiry index and the registry as they were.
C8_ReplicaRejects ==
    [][(Handled /\ fcmd'.op \in {"AdminReplicate", "AdminAddSlave", "Replconf"}) =>
          /\ starts_with(freply', <<"-">>)
          /\ sstore' = sstore
          /\ sexpirations' = sexpirations
          /\ slaves' = slaves]_vars

\* C8's case: the replica, with an entry in its store, has just answered a
\* REPLCONF of its client with an error.
C8_Witness ==
    /\ fcmd.op = "Replconf"
    /\ starts_with(freply, <<"-">>)
    /\ KeyK \in DOMAIN sstore
    /\ fpc = "read"

\* C9: a Replicate command arriving at a replica is applied: the replica
\* decodes the framed SET k a of its payload and applies it to its store,
\* and sends nothing to any other node.
C9_ReplicateApplied ==
    [][(Handled /\ fcmd'.op = "AdminReplicate") =>
          /\ KeyK \in DOMAIN sstore'
          /\ sstore'[KeyK].value = ValA
          /\ usent' = usent]_vars

\* C10: the handshake is reported successful only after PING, REPLCONF
\* listening-port <port> and REPLCONF capa psync2 went out on it, in that
\* order.
C10_HandshakeNegotiates ==
    hpc = "successful" =>
        /\ Len(hsent) = 3
        /\ hsent[1] = to_resp2(Ping)
        /\ \E port \in {MasterPort} :
               hsent[2] = to_resp2(Replconf(<<ListeningPort, port>>))
        /\ hsent[3] = to_resp2(Replconf(<<Capa, Psync2>>))
\* The REPLCONF exchange of replconf ends in this step without its +OK.
ReplconfFailed ==
    /\ fpc \in {"replconf_port", "replconf_capa"}
    /\ fpc' # fpc
    /\ ~starts_with(hgot', PlusOK)

\* C11: an unexpected reply, a malformed response or a lost connection at
\* any step of the handshake (connect, PING, either REPLCONF) moves the
\* handshake to Failed, and Failed is terminal: no later step is sent and
\* the state is never left again.
C11_FailureIsTerminal ==
    [][/\ (hpc = "start" /\ hpc' \notin {"start", "await_pong"}) => hpc' = "failed"
       /\ (hpc = "await_pong" /\ hpc' # hpc /\ hgot' # PingReply) => hpc' = "failed"
       /\ (hpc = "successful" /\ ReplconfFailed) => (hpc' = "failed" /\ usent' = usent)
       /\ hpc = "failed" => (hpc' = "failed" /\ hsent' = hsent)]_vars
\* C12: a replica whose handshake has failed keeps accepting client
\* connections and keeps serving GET and SET against its local store: a
\* connection can be accepted, and on an accepted one a SET writes its entry
\* and is answered OK, a GET is answered from the store.
C12_FailedReplicaServes ==
    /\ []((hpc = "failed" /\ fpc = "closed") => ENABLED SAccept)
    /\ [][(hpc = "failed" /\ Handled) =>
            /\ fcmd'.op = "Set" =>
                  /\ fcmd'.args[1] \in DOMAIN sstore'
                  /\ sstore'[fcmd'.args[1]] = Entry(fcmd'.args[2], fcmd'.exp)
                  /\ freply' = RedisCommandResponse_new(OK)
            /\ fcmd'.op = "Get" =>
                  freply' = IF fcmd'.args[1] \in DOMAIN sstore
                               /\ ~GetExpired(sstore, fcmd'.args[1], now)
                            THEN RedisCommandResponse_new(sstore[fcmd'.args[1]].value)
                            ELSE RedisCommandResponse_null]_vars

\* C12's case: the handshake failed before the client wrote anything, and
\* the replica has since applied a SET and answered a GET with its value.
C12_Witness ==
    /\ hpc = "failed"
    /\ hfailedAt = 0
    /\ fcmd.op = "Get"
    /\ KeyK \in DOMAIN sstore
    /\ freply = RedisCommandResponse_new(sstore[KeyK].value)
(***************************************************************************)
(* The dispatcher loop on requests that do not decode and on sockets that  *)
(* fail.                                                                   *)
(***************************************************************************)
DEL == <<"D", "E", "L">>

\* A SET whose value is the byte 0xFF, requests that decode, a verb the
\* parser does not know, and an array whose element has no $ header.
ConnFrames ==
    { ArrayFrame(<<SET, KeyK, <<XFF>>>>),
      ArrayFrame(<<SET, KeyK, ValA>>),
      ArrayFrame(<<GET, KeyK>>),
      ArrayFrame(<<DEL, KeyK>>),
      Text(<<"*", "2">> \o CRLF \o GET \o CRLF) }

\* stream.read returns an Err, or Ok(0): the while loop and the task end.
MReadError(c) ==
    /\ mpc[c] = "read"
    /\ mpc' = [mpc EXCEPT ![c] = "done"]
    /\ UNCHANGED <<now, inputs, store, expirations, lastSet, slaves, mutex,
                   mcmd, mstr, mresp, mreads, rpc, rwake>>
    /\ UNCHANGED <<mid, appliedLog, loopVars, feedVars, replicaVars, slaveVars>>
    /\ UNCHANGED auxVars

\* stream.write_all(response) returns an Err: it is printed, and `continue`
\* takes the task back to stream.read.
MWriteError(c) ==
    /\ mpc[c] = "respond"
    /\ mpc' = [mpc EXCEPT ![c] = "read"]
    /\ mcmd' = [mcmd EXCEPT ![c] = NoCmd]
    /\ mstr' = [mstr EXCEPT ![c] = <<>>]
    /\ mresp' = [mresp EXCEPT ![c] = <<>>]
    /\ mid' = [mid EXCEPT ![c] = 0]
    /\ mouts' = [mouts EXCEPT ![c] = <<>>]
    /\ mlast' = [mlast EXCEPT ![c] = "writefailed"]
    /\ UNCHANGED <<now, inputs, store, expirations, lastSet, slaves, mutex,
                   mreads, rpc, rwake>>
    /\ UNCHANGED <<appliedLog, midx, sentLog, feedVars, replicaVars, slaveVars>>
    /\ UNCHANGED <<mbuf, rwoke, hgot, hfailedAt, codec, master_replid, locks>>

InitConn == MasterInit /\ ReplicaInit /\ codec = NoTrip /\ master_replid = ReplIdA /\ locks = NoCalls /\ inputs = ConnFrames

NextConn ==
    \/ \E c \in MConns : MRead(c)
    \/ \E c \in MConns : MReadError(c)
    \/ \E c \in MConns : MReplicateNone(c)
    \/ \E c \in MConns : MHandleSet(c)
    \/ \E c \in MConns : MHandleGet(c)
    \/ \E c \in MConns : MRespond(c)
    \/ \E c \in MConns : MWriteError(c)
    \/ ReaperPeek
    \/ TickIdle
    \/ ReaperIdleWake

SpecConn == InitConn /\ [][NextConn]_vars
(***************************************************************************)
(* Claims about the dispatcher loop, checked under SpecConn.               *)
(***************************************************************************)
\* The frame f alone in a zeroed buffer.
Fresh(f) == Norm(f \o Nuls(BufSize - BLen(f)))

\* f is a request that decodes on a connection that has read nothing yet.
WellFormed(f) == from_utf8(Fresh(f)) /\ parse(Fresh(f), now).ok

\* C13: a request that fails to decode is dropped alone: on a connection
\* that has just dropped a request and waits for the next, every well-formed
\* request decodes, and to the command it decodes to on a fresh connection.
C13_DecodeFailureIsLocal ==
    \A c \in MConns : \A f \in inputs :
        (mpc[c] = "read" /\ mlast[c] = "dropped" /\ WellFormed(f)) =>
            LET buffer_str == Norm(f \o BDrop(mbuf[c], BLen(f)))
            IN  /\ from_utf8(buffer_str)
                /\ parse(buffer_str, now) = parse(Fresh(f), now)
\* The task of connection c reads a request in this step and drops it.
Dropped(c) ==
    /\ mreads' = mreads + 1
    /\ mlast[c] # "dropped"
    /\ mlast'[c] = "dropped"

\* C14: a malformed frame or an unknown verb is answered: the task that
\* could not decode a request goes on to write a RESP error reply
\* (-message) for it, on a connection that stays open.
C14_ErrorReply ==
    [][\A c \in MConns :
          Dropped(c) =>
              /\ mpc'[c] = "respond"
              /\ starts_with(mresp'[c], <<"-">>)]_vars

\* A read or a write fails on the socket of connection c in this step.
SocketFails(c) ==
    \/ mpc[c] = "read" /\ mreads' = mreads /\ mpc'[c] # "read"
    \/ mpc[c] = "respond" /\ mlast'[c] = "writefailed"

\* C15: a read or write failure on a socket ends the task of that
\* connection, which never processes a request again, and changes nothing
\* of any other connection's task, of the store or of the reaper.
C15_IoFailureEndsTask ==
    [][\A c \in MConns :
          /\ SocketFails(c) =>
                /\ mpc'[c] = "done"
                /\ \A d \in MConns \ {c} :
                       /\ mpc'[d] = mpc[d]
                       /\ mcmd'[d] = mcmd[d]
                       /\ mbuf'[d] = mbuf[d]
                /\ <<store, expirations, rpc, rwake>>' = <<store, expirations, rpc, rwake>>
          /\ mpc[c] = "done" => mpc'[c] = "done"]_vars

\* C16: within one connection a command only starts to execute once the
\* response of the command before it has been written: no request is taken
\* up for execution on a connection whose last response failed to be
\* written.
C16_OneAfterAnother ==
    [][\A c \in MConns :
          (mlast[c] # "executing" /\ mlast'[c] = "executing") =>
              mlast[c] # "writefailed"]_vars
(***************************************************************************)
(* The reaper's wakes, checked under Spec.  rwoke is the kind of the       *)
(* reaper's last wake while no clean_expired_keys has followed it.         *)
(***************************************************************************)
Sleeping == rpc \in {"sleep", "idle"}

\* An index entry is due.
Due == \E i \in 1..Len(expirations) : expirations[i][1] <= now

\* C18: on every wake, from the idle sleep as well as from the sleep until
\* the next expiry, the reaper calls clean_expired_keys before it sleeps
\* again: it never sleeps with a wake behind it that no sweep has followed.
C18_SweepOnEveryWake == Sleeping => rwoke = "none"

\* C18, amended: after a wake from the sleep until the next expiry the
\* reaper calls clean_expired_keys before it sleeps again; after a wake from
\* the idle sleep it reads next_expiration again and sleeps again without a
\* sweep only when no index entry is due.
C18_SweepOnTimedWake ==
    /\ [](Sleeping => rwoke # "timed")
    /\ [][(~Sleeping /\ Sleeping') => ~Due]_vars

\* C18's case: woken from the idle sleep, the reaper found an entry that is
\* not due yet and sleeps until its expiry, no sweep in between.
C18_Witness ==
    /\ rpc = "sleep"
    /\ rwoke = "idle"
    /\ expirations # <<>>
    /\ rwake = Head(expirations)[1]
(***************************************************************************)
(* The reaper under fair scheduling: clients that only set keys with an    *)
(* expiry and never read them, a clock that goes on while the reaper       *)
(* sleeps, and a reaper task that the runtime keeps running.               *)
(***************************************************************************)
KeyJ == <<"j">>

LiveFrames ==
    { ArrayFrame(<<SET, KeyK, ValB, PX, <<"1">>>>),
      ArrayFrame(<<SET, KeyJ, ValA, PX, <<"2">>>>) }

LiveKeys == {KeyK, KeyJ}

InitLive == MasterInit /\ ReplicaInit /\ codec = NoTrip /\ master_replid = ReplIdA /\ locks = NoCalls /\ inputs = LiveFrames

\* The reaper's sleep runs out: the clock reaches the time it sleeps until
\* (sleep_until(expiry_time), or the idle sleep).  An idle sleep over an
\* empty index is only followed within the horizon of the model.
Pass ==
    /\ rpc \in {"sleep", "idle"}
    /\ now < rwake
    /\ rpc = "idle" => (expirations # <<>> \/ now <= MaxTime)
    /\ now' = rwake
    /\ UNCHANGED <<inputs, store, expirations, lastSet, slaves, mutex,
                   mpc, mcmd, mstr, mresp, mreads, rpc, rwake>>
    /\ UNCHANGED <<mid, appliedLog, loopVars, feedVars, replicaVars, slaveVars>>
    /\ UNCHANGED auxVars

\* One client sets the keys, one request after the other.
NextLive ==
    \/ Tick
    \/ Pass
    \/ MRead(1)
    \/ MReplicateNone(1)
    \/ MHandleSet(1)
    \/ MRespond(1)
    \/ ReaperPeek
    \/ ReaperWake
    \/ ReaperIdleWake
    \/ ReaperClean

\* The reaper is a spawned task of its own (server.rs 18-21) that takes no
\* lock a connection task holds across an await, and its sleeps end.
SpecLive ==
    /\ InitLive
    /\ [][NextLive]_vars
    /\ WF_vars(Pass)
    /\ WF_vars(ReaperPeek)
    /\ WF_vars(ReaperWake)
    /\ WF_vars(ReaperIdleWake)
    /\ WF_vars(ReaperClean)

\* The recorded expiry of key k has passed.
Expired(k) ==
    k \in DOMAIN store /\ store[k].expiry # None /\ store[k].expiry[1] <= now

\* C19: every key whose recorded expiry has passed is eventually removed
\* from the store, by the reaper and with no client reading it: an expired
\* entry does not stay, and in a run without reads a key only leaves the
\* store in a sweep.
C19_EventuallySwept ==
    /\ \A k \in LiveKeys : Expired(k) ~> ~Expired(k)
    /\ [][\A k \in LiveKeys :
            (k \in DOMAIN store /\ k \notin DOMAIN store') => rpc = "clean"]_vars

\* C19's case: the reaper sleeps until the expiry of j when k is set with a
\* sooner one, and k's expiry has passed while that sleep goes on; nothing
\* reads k.
C19_Witness ==
    /\ rpc = "sleep"
    /\ now < rwake
    /\ DOMAIN store = LiveKeys
    /\ rwake = store[KeyJ].expiry[1]
    /\ Expired(KeyK)
    /\ Len(expirations) = 2
(***************************************************************************)
(* The round trip of a command through its written form: a frame is        *)
(* parsed, the command is written out (impl Display for RedisCommand) and  *)
(* what was written is parsed again, the clock going on in between.        *)
(***************************************************************************)
ECHO == <<"E", "C", "H", "O">>
INFO == <<"I", "N", "F", "O">>
SP == <<" ">>

\* impl Display for RedisCommand: the verb and the fields, separated by
\* single spaces, the expiry in decimal after PX.
fmt(cmd) ==
    CASE cmd.op = "Ping" -> PING
      [] cmd.op = "Pong" -> PONG
      [] cmd.op = "Echo" -> ECHO \o SP \o cmd.args[1]
      [] cmd.op = "Get" -> GET \o SP \o cmd.args[1]
      [] cmd.op = "Set" ->
            IF cmd.exp # None
            THEN SET \o SP \o cmd.args[1] \o SP \o cmd.args[2]
                     \o SP \o PX \o SP \o Digits(cmd.exp[1])
            ELSE SET \o SP \o cmd.args[1] \o SP \o cmd.args[2]
      [] cmd.op = "AdminReplicate" -> REPLICATE \o SP \o cmd.args[1]
      [] cmd.op = "Info" ->
            IF cmd.args # <<>> THEN INFO \o SP \o cmd.args[1] ELSE INFO

CodecFrames ==
    { ArrayFrame(<<PING>>),
      BulkFrame(<<PONG>>),
      ArrayFrame(<<ECHO, ValA>>),
      ArrayFrame(<<GET, KeyK>>),
      ArrayFrame(<<SET, KeyK, ValA>>),
      ArrayFrame(<<SET, KeyK, ValB, PX, <<"1">>>>),
      ArrayFrame(<<SET, KeyJ, ValA, PX, <<"2">>>>),
      ArrayFrame(<<INFO>>),
      ArrayFrame(<<INFO, ValA>>),
      ArrayFrame(<<REPLICATE, ReplicateWord, ValA>>) }

InitCodec ==
    /\ MasterInit
    /\ ReplicaInit
    /\ inputs = CodecFrames
    /\ codec \in {[NoTrip EXCEPT !.pc = "frame", !.wire = f] : f \in CodecFrames}
    /\ master_replid = ReplIdA
    /\ locks = NoCalls

\* RedisCommandParser::parse of the frame: a command, or an error and no
\* command.
CodecParse ==
    /\ codec.pc = "frame"
    /\ LET r == parse(Fresh(codec.wire), now)
       IN  codec' = IF r.ok
                    THEN [codec EXCEPT !.pc = "parsed", !.first = r.val]
                    ELSE [codec EXCEPT !.pc = "rejected", !.second = r]
    /\ UNCHANGED <<now, inputs, storeVars, slaves, mutex, mid, appliedLog,
                   connVars, reaperVars, loopVars, feedVars, replicaVars,
                   slaveVars>>
    /\ UNCHANGED <<mbuf, mlast, rwoke, hgot, hfailedAt, master_replid, locks>>

\* The command is written out.
CodecFmt ==
    /\ codec.pc = "parsed"
    /\ codec' = [codec EXCEPT !.pc = "written", !.wire = Text(fmt(codec.first))]
    /\ UNCHANGED <<now, inputs, storeVars, slaves, mutex, mid, appliedLog,
                   connVars, reaperVars, loopVars, feedVars, replicaVars,
                   slaveVars>>
    /\ UNCHANGED <<mbuf, mlast, rwoke, hgot, hfailedAt, master_replid, locks>>

\* RedisCommandParser::parse of what was written.
CodecReparse ==
    /\ codec.pc = "written"
    /\ codec' = [codec EXCEPT !.pc = "done",
                              !.second = parse(Fresh(codec.wire), now)]
    /\ UNCHANGED <<now, inputs, storeVars, slaves, mutex, mid, appliedLog,
                   connVars, reaperVars, loopVars, feedVars, replicaVars,
                   slaveVars>>
    /\ UNCHANGED <<mbuf, mlast, rwoke, hgot, hfailedAt, master_replid, locks>>

NextCodec ==
    \/ Tick
    \/ CodecParse
    \/ CodecFmt
    \/ CodecReparse

SpecCodec == InitCodec /\ [][NextCodec]_vars

\* C20: writing a parsed command out and parsing the result again yields a
\* command equal to the first, for every variant; a Set whose expiry is an
\* absolute timestamp comes back with the same expiry.
C20_RoundTrip ==
    codec.pc = "done" =>
        /\ codec.second.ok
        /\ codec.second.val = codec.first
(***************************************************************************)
(* The master's responses, for every command a client can send it.         *)
(***************************************************************************)
ReplicationSection == <<"r", "e", "p", "l", "i", "c", "a", "t", "i", "o", "n">>
UnsupportedInfoSection ==
    <<"U", "n", "s", "u", "p", "p", "o", "r", "t", "e", "d", " ", "I", "N", "F", "O", " ", "s", "e", "c", "t", "i", "o", "n">>

\* The text INFO replication answers with (master.rs 105-108): the fields of
\* RedisInfo, one per line.
InfoMessage(role, host, port, replid, offset) ==
    <<"r", "o", "l", "e", ":">> \o role \o CRLF
        \o <<"m", "a", "s", "t", "e", "r", "_", "h", "o", "s", "t", ":">> \o host \o CRLF
        \o <<"m", "a", "s", "t", "e", "r", "_", "p", "o", "r", "t", ":">> \o port \o CRLF
        \o <<"m", "a", "s", "t", "e", "r", "_", "r", "e", "p", "l", "i", "d", ":">> \o replid \o CRLF
        \o <<"m", "a", "s", "t", "e", "r", "_", "r", "e", "p", "l", "_", "o", "f", "f", "s", "e", "t", ":">> \o Digits(offset)

RoleMaster == <<"m", "a", "s", "t", "e", "r">>

\* Master::handle_command of the commands that touch neither the store nor
\* the registry.
Master_handle_command(cmd, replid) ==
    CASE cmd.op = "Ping" -> RedisCommandResponse_new(PONG)
      [] cmd.op = "Pong" -> RedisCommandResponse_new(PING)
      [] cmd.op = "Echo" -> RedisCommandResponse_new(cmd.args[1])
      [] cmd.op = "Info" ->
            IF cmd.args = <<ReplicationSection>>
            THEN RedisCommandResponse_new(
                     InfoMessage(RoleMaster, <<>>, <<>>, replid, 0))
            ELSE RedisCommandResponse_error(UnsupportedInfoSection)

MHandleOther(c) ==
    /\ mpc[c] = "handle"
    /\ MutexFree
    /\ mcmd[c].op \in {"Ping", "Pong", "Echo", "Info"}
    /\ mresp' = [mresp EXCEPT ![c] = Master_handle_command(mcmd[c], master_replid)]
    /\ mpc' = [mpc EXCEPT ![c] = "respond"]
    /\ UNCHANGED <<now, inputs, slaves, mutex, mid, appliedLog, storeVars,
                   mcmd, mstr, mreads, reaperVars, loopVars, feedVars,
                   replicaVars, slaveVars>>
    /\ UNCHANGED auxVars

ReplyFrames ==
    { ArrayFrame(<<PING>>),
      BulkFrame(<<PING>>),
      ArrayFrame(<<PONG>>),
      ArrayFrame(<<ECHO, ValA>>),
      ArrayFrame(<<GET, KeyK>>),
      ArrayFrame(<<SET, KeyK, ValB>>),
      ArrayFrame(<<INFO, ReplicationSection>>),
      ArrayFrame(<<INFO, ValA>>),
      ArrayFrame(<<INFO>>) }

InitReply ==
    /\ MasterInit
    /\ ReplicaInit
    /\ codec = NoTrip
    /\ master_replid \in ReplIds
    /\ locks = NoCalls
    /\ inputs = ReplyFrames

NextReply ==
    \/ \E c \in MConns : MRead(c)
    \/ \E c \in MConns : MReplicateNone(c)
    \/ \E c \in MConns : MHandleSet(c)
    \/ \E c \in MConns : MHandleGet(c)
    \/ \E c \in MConns : MHandleOther(c)
    \/ \E c \in MConns : MRespond(c)

SpecReply == InitReply /\ [][NextReply]_vars

\* handle_command of connection c returns in this step.
Returns(c) == mpc[c] = "handle" /\ mpc'[c] = "respond"

\* C21: a successful textual result is answered as the bulk string
\* $len CRLF text CRLF, an absent one as $-1 CRLF and an error as
\* -message CRLF, for every command: PING answers $4 CRLF PONG CRLF, GET of a
\* key never set $-1 CRLF, GET of a set key, ECHO, SET and INFO replication
\* the bulk string of their text, and INFO of any other section an error
\* line.
C21_ResponseEncoding ==
    [][\A c \in MConns :
          Returns(c) =>
              LET cmd == mcmd[c]
                  r == mresp'[c]
              IN  /\ cmd.op = "Ping" =>
                        r = <<"$", "4", "\r", "\n", "P", "O", "N", "G", "\r", "\n">>
                  /\ cmd.op = "Pong" => r = BulkString(PING)
                  /\ cmd.op = "Echo" => r = BulkString(cmd.args[1])
                  /\ cmd.op = "Set" => r = BulkString(OK)
                  /\ (cmd.op = "Get" /\ cmd.args[1] \notin DOMAIN lastSet) =>
                        r = <<"$", "-", "1", "\r", "\n">>
                  /\ (cmd.op = "Get" /\ cmd.args[1] \in DOMAIN lastSet) =>
                        r = BulkString(lastSet[cmd.args[1]].value)
                  /\ (cmd.op = "Info" /\ cmd.args = <<ReplicationSection>>) =>
                        /\ starts_with(r, <<"$", "1", "1", "7", "\r", "\n">>
                                             \o <<"r", "o", "l", "e", ":">> \o RoleMaster \o CRLF)
                        /\ Len(r) = 6 + 117 + 2
                        /\ SubSeq(r, Len(r) - 1, Len(r)) = CRLF
                  /\ (cmd.op = "Info" /\ cmd.args # <<ReplicationSection>>) =>
                        /\ Head(r) = "-"
                        /\ SubSeq(r, Len(r) - 1, Len(r)) = CRLF
                        /\ \A j \in 2..Len(r) - 2 : r[j] \notin {CR, LF}]_vars

\* C21's case: one connection has the answer to INFO replication to write,
\* the other the answer to a GET of a key that was never set.
C21_Witness ==
    \E c, d \in MConns :
        /\ mpc[c] = "respond" /\ mcmd[c].op = "Info"
        /\ Head(mresp[c]) = "$"
        /\ mpc[d] = "respond" /\ mcmd[d].op = "Get"
        /\ lastSet = EmptyStore
        /\ mresp[d] = RedisCommandResponse_null
(***************************************************************************)
(* The store under reads and overwrites, checked under Spec.               *)
(***************************************************************************)
\* C22: a get of a key whose recorded expiry has passed removes the key's
\* entry before it returns absent: the get goes on to remove, and in the
\* step it returns the response is absent and the store holds no entry for
\* the key.
C22_GetRemovesExpired ==
    [][\A c \in MConns :
          LET k == mcmd[c].args[1]
          IN  /\ (mpc[c] = "handle" /\ mcmd[c].op = "Get" /\ mpc'[c] # "handle"
                     /\ GetExpired(store, k, now)) =>
                    mpc'[c] = "get_remove"
              /\ (mpc[c] = "get_remove" /\ mpc'[c] # "get_remove") =>
                    /\ mpc'[c] = "respond"
                    /\ mresp'[c] = RedisCommandResponse_null
                    /\ k \notin DOMAIN store']_vars

\* C22's case: a get has returned absent for a key set with an expiry that
\* has passed; the reaper has not popped the key's index entry, the entry
\* is gone from the store all the same.
C22_Witness ==
    \E c \in MConns :
        LET k == mcmd[c].args[1]
        IN  /\ mpc[c] = "respond"
            /\ mcmd[c].op = "Get"
            /\ mresp[c] = RedisCommandResponse_null
            /\ k \in DOMAIN lastSet
            /\ lastSet[k].expiry # None
            /\ lastSet[k].expiry[1] <= now
            /\ expirations = <<<<lastSet[k].expiry[1], k>>>>
            /\ k \notin DOMAIN store
\* The Set of connection c is applied in this step.
SetApplied(c) ==
    mpc[c] = "handle" /\ mcmd[c].op = "Set" /\ mpc'[c] = "respond"

\* C23: the store holds one entry per key, the one of the set that took the
\* store's lock last, value and expiry together: a set leaves exactly its
\* own value and expiry as the key's entry, and until the next set of the
\* key the entry stays as it is or is removed, whatever sets of several
\* connections came before.
C23_LastWriteWins ==
    /\ [](\A k \in DOMAIN store : store[k] = lastSet[k])
    /\ [][\A c \in MConns :
            SetApplied(c) =>
                store'[mcmd[c].args[1]] = Entry(mcmd[c].args[2], mcmd[c].exp)]_vars
    /\ [][\A k \in DOMAIN store' :
            (~\E c \in MConns : SetApplied(c) /\ mcmd[c].args[1] = k) =>
                (k \in DOMAIN store /\ store'[k] = store[k])]_vars

\* C23's case: two connections have set the same key, one with an expiry
\* and one without; the entry is the one of the set applied last.
C23_Witness ==
    \E c, d \in MConns :
        /\ mpc[c] = "respond" /\ mpc[d] = "respond"
        /\ mcmd[c].op = "Set" /\ mcmd[d].op = "Set"
        /\ mcmd[c].args[1] = mcmd[d].args[1]
        /\ mcmd[c].exp # None /\ mcmd[d].exp = None
        /\ appliedLog = <<mid[c], mid[d]>>
        /\ store = (mcmd[d].args[1] :> Entry(mcmd[d].args[2], None))
(***************************************************************************)
(* The parser on the frames of single commands: the arities of SET and the *)
(* degenerate form, one bulk string holding a bare verb.                   *)
(***************************************************************************)
\* What may follow the verb SET.
SetWords ==
    { <<>>,
      <<KeyK>>,
      <<KeyK, ValA>>,
      <<KeyK, ValA, ValB>>,
      <<KeyK, ValA, PX, <<"1">>>>,
      <<KeyK, ValA, <<"p", "x">>, <<"2">>>>,
      <<KeyK, ValA, <<"P", "x">>, <<"1">>>>,
      <<KeyK, ValA, PX, <<"1">>, ValB>>,
      <<KeyK, ValA, PX, <<"1">>, ValB, ValB>> }

BareVerbs == {PING, PONG, INFO, REPLCONF, ECHO, GET, SET, <<"p", "i", "n", "g">>}

ParseFrames ==
    {ArrayFrame(<<SET>> \o w) : w \in SetWords}
        \cup {BulkFrame(<<v>>) : v \in BareVerbs}
        \cup {ArrayFrame(<<v>>) : v \in {PING, INFO, REPLCONF}}

InitParse ==
    /\ MasterInit
    /\ ReplicaInit
    /\ inputs = ParseFrames
    /\ codec \in {[NoTrip EXCEPT !.pc = "frame", !.wire = f] : f \in ParseFrames}
    /\ master_replid = ReplIdA
    /\ locks = NoCalls

NextParse ==
    \/ Tick
    \/ CodecParse

SpecParse == InitParse /\ [][NextParse]_vars

\* The parser has returned.
Parsed == codec.pc \in {"parsed", "rejected"}

\* C25: SET is accepted with two arguments (key, value) or with four (key,
\* value, PX in any letter case, millis) and with no other number of them:
\* a SET frame of any other argument count yields an error and no command.
C25_SetArity ==
    \A w \in SetWords :
        (Parsed /\ codec.wire = ArrayFrame(<<SET>> \o w)) =>
            IF Len(w) \in {2, 4}
            THEN /\ codec.pc = "parsed"
                 /\ codec.first.op = "Set"
                 /\ codec.first.args = <<w[1], w[2]>>
                 /\ codec.first.exp # None <=> Len(w) = 4
            ELSE /\ codec.pc = "rejected"
                 /\ ~codec.second.ok
                 /\ codec.first = NoCmd

\* C26: a frame of one $len header and a bare verb is parsed as that verb
\* with no arguments: PING, PONG, INFO and REPLCONF in this form decode to
\* Ping, Pong, Info with no section and Replconf with the empty list.
C26_BareVerbs ==
    /\ (Parsed /\ codec.wire = BulkFrame(<<PING>>)) =>
            (codec.pc = "parsed" /\ codec.first = Ping)
    /\ (Parsed /\ codec.wire = BulkFrame(<<PONG>>)) =>
            (codec.pc = "parsed" /\ codec.first = Pong)
    /\ (Parsed /\ codec.wire = BulkFrame(<<INFO>>)) =>
            (codec.pc = "parsed" /\ codec.first = Info(<<>>))
    /\ (Parsed /\ codec.wire = BulkFrame(<<REPLCONF>>)) =>
            (codec.pc = "parsed" /\ codec.first = Replconf(<<>>))
(***************************************************************************)
(* The master under errors of every kind: requests that do not decode,     *)
(* replicas that cannot be reached, sockets that fail.                     *)
(***************************************************************************)
\* An accept loop that would end with the first request it cannot decode.
MasterListeningUntilError == \A c \in MConns : mlast[c] # "dropped"

\* The accept loop of start_master_server (server.rs 23-84) hands every
\* connection to a task of its own and leaves the loop on no error of such
\* a task.
MasterListening == TRUE

\* listener.accept(): a new client takes the place of one whose task has
\* ended, with a task and a zeroed buffer of its own.
MAccept(c) ==
    /\ MasterListening
    /\ mpc[c] = "done"
    /\ mpc' = [mpc EXCEPT ![c] = "read"]
    /\ mbuf' = [mbuf EXCEPT ![c] = Nuls(BufSize)]
    /\ mlast' = [mlast EXCEPT ![c] = "answered"]
    /\ UNCHANGED <<now, inputs, store, expirations, lastSet, slaves, mutex,
                   mcmd, mstr, mresp, mreads, rpc, rwake>>
    /\ UNCHANGED <<mid, appliedLog, loopVars, feedVars, replicaVars, slaveVars>>
    /\ UNCHANGED <<rwoke, hgot, hfailedAt, codec, master_replid, locks>>

ErrFrames ==
    { ArrayFrame(<<ADDSLAVE, AddSlaveWord, DeadAddr>>),
      ArrayFrame(<<SET, KeyK, ValB, PX, <<"1">>>>),
      ArrayFrame(<<DEL, KeyK>>) }

InitErr ==
    /\ MasterInit
    /\ ReplicaInit
    /\ codec = NoTrip
    /\ master_replid = ReplIdA
    /\ locks = NoCalls
    /\ inputs = ErrFrames

NextErr ==
    \/ Tick
    \/ TickIdle
    \/ \E c \in MConns : MAccept(c)
    \/ \E c \in MConns : MRead(c)
    \/ \E c \in MConns : MReadError(c)
    \/ \E c \in MConns : MReplicateNone(c)
    \/ \E c \in MConns : MReplicateBegin(c)
    \/ \E c \in MConns : MSendError(c)
    \/ \E c \in MConns : MSendDone(c)
    \/ \E c \in MConns : MHandleSet(c)
    \/ \E c \in MConns : MHandleAddSlave(c)
    \/ \E c \in MConns : MRespond(c)
    \/ \E c \in MConns : MWriteError(c)
    \/ ReaperPeek
    \/ ReaperWake
    \/ ReaperIdleWake
    \/ ReaperClean

SpecErr == InitErr /\ [][NextErr]_vars

\* A send of connection c's propagate loop fails in this step.
SendFails(c) == Len(mouts'[c]) = Len(mouts[c]) + 1 /\ mouts'[c][Len(mouts'[c])] = "err"

\* The reaper can take the next step of its loop: nothing but its own
\* sleep holds it.
ReaperRuns ==
    /\ rpc \in {"loop", "sleep", "idle", "clean"}
    /\ rpc = "loop" => ENABLED ReaperPeek
    /\ rpc = "clean" => ENABLED ReaperClean
    /\ (rpc = "sleep" /\ now >= rwake) => ENABLED ReaperWake
    /\ (rpc = "idle" /\ now >= rwake) => ENABLED ReaperIdleWake

MSendStall(c) ==
    /\ mpc[c] = "send"
    /\ midx[c] <= Len(slaves)
    /\ slaves[midx[c]] = SilentAddr
    /\ sentLog' = Append(sentLog, mid[c])
    /\ mpc' = [mpc EXCEPT ![c] = "await"]
    /\ UNCHANGED <<now, inputs, slaves, mutex, mid, appliedLog, storeVars,
                   mcmd, mstr, mresp, mreads, reaperVars, midx, mouts,
                   feedVars, replicaVars, slaveVars>>
    /\ UNCHANGED auxVars

StallFrames ==
    { ArrayFrame(<<ADDSLAVE, AddSlaveWord, SilentAddr>>),
      ArrayFrame(<<ADDSLAVE, AddSlaveWord, DeadAddr>>),
      ArrayFrame(<<SET, KeyK, ValA>>),
      ArrayFrame(<<PING>>) }

InitStall ==
    /\ MasterInit
    /\ ReplicaInit
    /\ codec = NoTrip
    /\ master_replid = ReplIdA
    /\ locks = NoCalls
    /\ inputs = StallFrames

\* The steps of the task of connection c once it has read a request; the
\* read itself waits for the client.
ConnStep(c) ==
    \/ MReplicateNone(c)
    \/ MReplicateBegin(c)
    \/ MSendStall(c)
    \/ MSendError(c)
    \/ MSendDone(c)
    \/ MHandleSet(c)
    \/ MHandleAddSlave(c)
    \/ MHandleOther(c)
    \/ MRespond(c)

NextStall ==
    \/ \E c \in MConns : MRead(c)
    \/ \E c \in MConns : MReplicateNone(c)
    \/ \E c \in MConns : MReplicateBegin(c)
    \/ \E c \in MConns : MSendStall(c)
    \/ \E c \in MConns : MSendError(c)
    \/ \E c \in MConns : MSendDone(c)
    \/ \E c \in MConns : MHandleSet(c)
    \/ \E c \in MConns : MHandleAddSlave(c)
    \/ \E c \in MConns : MHandleOther(c)
    \/ \E c \in MConns : MRespond(c)

SpecStall ==
    /\ InitStall
    /\ [][NextStall]_vars
    /\ \A c \in MConns : WF_vars(ConnStep(c))

\* C28: a registered replica that accepts the connection and never replies
\* does not block the master: the connection whose SET is being propagated
\* to it eventually has its response, and a PING decoded on another
\* connection is eventually answered.
C28_SilentReplicaDoesNotBlock ==
    /\ \A c \in MConns :
          (mpc[c] = "await" /\ mcmd[c].op = "Set") ~> (mpc[c] = "respond")
    /\ \A d \in MConns :
          (mpc[d] = "handle" /\ mcmd[d].op = "Ping") ~> (mpc[d] = "respond")
(***************************************************************************)
(* The replica against a master of this implementation: what the replica   *)
(* reads back is what the master's connection task writes for the bytes    *)
(* the replica sent.                                                       *)
(***************************************************************************)
\* The master's acknowledgement of a REPLCONF.  Whatever its handler decides,
\* the response is built by one of the three constructors of
\* RedisCommandResponse (command.rs 205-228): new, null or _error.
MasterReplconfReplies ==
    { RedisCommandResponse_new(OK),
      RedisCommandResponse_null,
      RedisCommandResponse_error(UnsupportedInfoSection) }

\* What the master's connection task writes back for the request bytes: the
\* response of handle_command for the command they parse to, and nothing for
\* bytes that do not parse.
MasterAnswers(bytes) ==
    LET r == parse(Text(bytes), now)
    IN  IF ~r.ok THEN {}
        ELSE IF r.val.op = "Replconf" THEN MasterReplconfReplies
        ELSE IF r.val.op \in {"Ping", "Pong", "Echo", "Info"}
             THEN {Master_handle_command(r.val, master_replid)}
             ELSE {}

\* The handshake's read returns the master's answer to the PING.
HRecvMaster ==
    /\ hpc = "await_pong"
    /\ \E response \in MasterAnswers(hsent[Len(hsent)]) :
          LET r == parse(Text(response), now)
              pong == response # <<>> /\ r.ok /\ r.val = Pong
          IN  /\ hgot' = response
              /\ hpc' = IF pong THEN "successful" ELSE "failed"
              /\ hfailedAt' = IF pong THEN hfailedAt ELSE sreads
    /\ UNCHANGED <<now, inputs, slaves, mutex, mid, appliedLog, storeVars,
                   connVars, reaperVars, loopVars, feedVars, replicaVars,
                   sreads, usent, hsent>>
    /\ UNCHANGED <<mbuf, mlast, rwoke, codec, master_replid, locks>>

\* send_command_to_master returns inside replconf with the master's answer
\* to the REPLCONF just sent (slave.rs 52-61, 108-119).
FReplconfMaster ==
    /\ fpc \in {"replconf_port", "replconf_capa"}
    /\ \E response \in MasterAnswers(usent[Len(usent)]) :
        /\ hgot' = response
        /\ IF starts_with(response, <<"+">>) /\ starts_with(response, PlusOK)
             THEN IF fpc = "replconf_port"
                  THEN /\ fpc' = "replconf_capa"
                       /\ usent' = Append(usent, to_resp2(Replconf(<<Capa, Psync2>>)))
                       /\ UNCHANGED <<fbuf, freply>>
                  ELSE /\ fpc' = "read"
                       /\ freply' = RedisCommandResponse_new(
                             <<"R", "E", "P", "L", "C", "O", "N", "F", " ",
                               "c", "o", "m", "m", "a", "n", "d", "s", " ",
                               "s", "e", "n", "t", " ",
                               "s", "u", "c", "c", "e", "s", "s", "f", "u", "l", "l", "y">>)
                       /\ fbuf' = Nuls(BufSize)
                       /\ UNCHANGED usent
             ELSE /\ fpc' = "read"
                  /\ UNCHANGED <<fbuf, freply, usent>>
    /\ UNCHANGED <<now, inputs, slaves, mutex, mid, appliedLog, storeVars,
                   connVars, reaperVars, loopVars, finbox, fcmd, replicaVars,
                   sreads, hpc, hsent>>
    /\ UNCHANGED <<mbuf, mlast, rwoke, hfailedAt, codec, master_replid, locks>>

InitShake ==
    /\ MasterInit
    /\ ReplicaInit
    /\ codec = NoTrip
    /\ master_replid \in ReplIds
    /\ locks = NoCalls
    /\ inputs = SlaveFrames

NextShake ==
    \/ SAccept
    \/ SClientWrite
    \/ FRead
    \/ FPong
    \/ FReplconfMaster
    \/ HSendPing
    \/ HRecvMaster

SpecShake == InitShake /\ [][NextShake]_vars

\* C29: the replies the master produces are the ones the replica accepts, so
\* that the handshake can go on to Synced: the answer to the PING ends the
\* PING step with success, and the answer to each REPLCONF is taken as the
\* affirmative acknowledgement (+OK).
C29_MasterRepliesAccepted ==
    [][/\ (hpc = "await_pong" /\ hpc' # hpc) => hpc' = "successful"
       /\ (fpc \in {"replconf_port", "replconf_capa"} /\ fpc' # fpc) =>
              starts_with(hgot', PlusOK)]_vars
(***************************************************************************)
(* Overwrites without expiry and the sweep, checked under Spec.            *)
(***************************************************************************)
\* C30: a key whose current entry has no expiry is never removed by the
\* sweep: a run of clean_expired_keys leaves every such entry as it is, also
\* when it pops a stale index entry of the key, and so a key whose latest
\* set carried no expiry is held with that set's value at every later time.
C30_SweepKeepsPersistent ==
    /\ [][(rpc = "clean" /\ rpc' = "loop") =>
            \A k \in DOMAIN store :
                store[k].expiry = None =>
                    (k \in DOMAIN store' /\ store'[k] = store[k])]_vars
    /\ [](\A k \in DOMAIN lastSet :
            lastSet[k].expiry = None =>
                (k \in DOMAIN store /\ store[k] = lastSet[k]))
(***************************************************************************)
(* The expiry index against the store, checked under Spec.                 *)
(***************************************************************************)
\* The index holds the pair (t, k).
Indexed(ex, t, k) == \E i \in 1..Len(ex) : ex[i] = <<t, k>>

\* C31: in every reachable state, every store entry of a key k that has an
\* expiry t has its pair (t, k) in the expiry index, whatever sets, gets,
\* removes and sweeps came before.
C31_IndexCoversStore ==
    \A k \in DOMAIN store :
        store[k].expiry # None => Indexed(expirations, store[k].expiry[1], k)

\* C31's case: two sets with expiry have been applied and a sweep has popped
\* the index entry of the first; the entry of the second is held and indexed.
C31_Witness ==
    /\ Len(appliedLog) = 2
    /\ \A c \in MConns :
          mpc[c] = "respond" /\ mcmd[c].op = "Set" /\ mcmd[c].exp # None
    /\ KeyK \in DOMAIN store
    /\ store[KeyK].expiry = Some(2)
    /\ expirations = <<<<2, KeyK>>>>

\* A run of clean_expired_keys: the reaper's step from "clean".
Sweeps == rpc = "clean" /\ rpc' = "loop"

\* C32: a sweep pops exactly the index entries whose timestamp is at or
\* before the clock value it read, in non-decreasing order of timestamp, and
\* leaves every entry with a later timestamp in the index; when it returns,
\* next_expiration() is absent or greater than that clock value.
C32_SweepPopsDue ==
    [][Sweeps =>
          LET due == {i \in 1..Len(expirations) : expirations[i][1] <= now}
              n == Cardinality(due)
          IN  /\ due = 1..n
              /\ \A i \in 1..Len(expirations) :
                    \A j \in 1..Len(expirations) :
                        i < j => expirations[i][1] <= expirations[j][1]
              /\ expirations' = SubSeq(expirations, n + 1, Len(expirations))
              /\ \A i \in 1..Len(expirations') : expirations'[i][1] > now
              /\ LET nx == next_expiration(expirations')
                 IN  nx = None \/ nx[1] > now]_vars

\* C32's case: two sets with expiry 1 and 2 have been applied and a sweep at
\* clock value 1 has popped the first pair (and removed the key) and left
\* the second.
C32_Witness ==
    /\ Len(appliedLog) = 2
    /\ \A c \in MConns :
          mpc[c] = "respond" /\ mcmd[c].op = "Set" /\ mcmd[c].exp # None
    /\ now = 1
    /\ KeyK \notin DOMAIN store
    /\ expirations = <<<<2, KeyK>>>>
(***************************************************************************)
(* remove and next_expiration with two keys in the store: one client sets  *)
(* both with an expiry and gets one of them, the reaper runs alongside.    *)
(***************************************************************************)
KeysFrames == LiveFrames \cup {ArrayFrame(<<GET, KeyK>>)}

InitKeys ==
    /\ MasterInit
    /\ ReplicaInit
    /\ codec = NoTrip
    /\ master_replid = ReplIdA
    /\ locks = NoCalls
    /\ inputs = KeysFrames

NextKeys ==
    \/ Tick
    \/ TickIdle
    \/ MRead(1)
    \/ MReplicateNone(1)
    \/ MHandleSet(1)
    \/ MHandleGet(1)
    \/ MGetRemove(1)
    \/ MRespond(1)
    \/ ReaperPeek
    \/ ReaperWake
    \/ ReaperIdleWake
    \/ ReaperClean

SpecKeys == InitKeys /\ [][NextKeys]_vars

\* store.remove(key) is run for connection c in this step.
Removes(c) == mpc[c] = "get_remove" /\ mpc'[c] = "respond"

\* The reaper's call of next_expiration returns in this step.
Peeks == rpc = "loop" /\ rpc' # "loop"

\* The smallest timestamp of an index that is not empty.
MinStamp(ex) ==
    CHOOSE t \in {ex[i][1] : i \in 1..Len(ex)} :
        \A i \in 1..Len(ex) : t <= ex[i][1]

\* C36: remove(k) deletes the store entry of k only, leaving the entry of
\* every other key and the whole expiry index as they were;
\* next_expiration() returns the smallest timestamp of the index (none for
\* an empty index) and changes neither the index nor the store.
C36_RemoveAndPeekFrames ==
    /\ [][\A c \in MConns :
            Removes(c) =>
                /\ DOMAIN store' = DOMAIN store \ {mcmd[c].args[1]}
                /\ \A k \in DOMAIN store' : store'[k] = store[k]
                /\ expirations' = expirations]_vars
    /\ [][Peeks =>
            /\ store' = store
            /\ expirations' = expirations
            /\ rpc' = "idle" <=> expirations = <<>>
            /\ rpc' = "sleep" =>
                  (rwake' = MinStamp(expirations) /\ rwake' > now)
            /\ rpc' = "clean" => MinStamp(expirations) <= now]_vars

\* C36's case: the get of the expired key k has removed it while the other
\* key is held and the index still has the pairs of both keys; the reaper
\* has peeked the index, found its head due and is about to sweep.
C36_Witness ==
    /\ mcmd[1].op = "Get"
    /\ mpc[1] = "respond"
    /\ mresp[1] = RedisCommandResponse_null
    /\ DOMAIN store = {KeyJ}
    /\ Len(expirations) = 2
    /\ rpc = "clean"
(***************************************************************************)
(* RedisStore at the level of its two RwLocks (store.rs 25-71): every call *)
(* of get, set, next_expiration and clean_expired_keys takes its locks one *)
(* await at a time.  The connection tasks and the reaper call the store    *)
(* with nothing else to order them.                                        *)
(***************************************************************************)
\* A get that would go on to remove with its read guard still held.
GetKeepsGuard == FALSE

\* get drops its read guard before it calls remove (store.rs 30).
GetDropsGuard == TRUE

\* RwLock::read() can return: nobody holds the write guard.
CanRead(writers) == writers = {}

\* RwLock::write() can return: nobody holds a guard.
CanWrite(writers, readers) == writers = {} /\ readers = {}

LocksUnchanged ==
    UNCHANGED <<inputs, slaves, mutex, mid, appliedLog, connVars, reaperVars,
                loopVars, feedVars, replicaVars, slaveVars, mbuf, mlast,
                rwoke, hgot, hfailedAt, codec, master_replid>>

\* The clock, while the store is called.
LTick ==
    /\ now < MaxTime
    /\ now' = now + 1
    /\ UNCHANGED <<storeVars, locks>>
    /\ LocksUnchanged

\* A task calls the store: a connection get or set, the reaper
\* next_expiration or clean_expired_keys.  The call is at its first await.
LCall(t) ==
    /\ locks.pc[t] = "idle"
    /\ locks.calls < MaxReads
    /\ \E op \in IF t = Reaper THEN {"peek_read", "clean_store"}
                 ELSE {"get_read", "set_store"} :
       \E e \in {None, Some(now + 1)} :
          /\ (op = "set_store" /\ e # None) => Len(expirations) < MaxHeap
          /\ (op # "set_store") => e = None
          /\ locks' = [locks EXCEPT !.pc[t] = op,
                                    !.key[t] = IF t = Reaper THEN <<>> ELSE KeyK,
                                    !.value[t] = IF op = "set_store" THEN ValA ELSE <<>>,
                                    !.expiry[t] = e,
                                    !.calls = locks.calls + 1]
    /\ UNCHANGED <<now, storeVars>>
    /\ LocksUnchanged

\* An await on one of the locks returns its guard.
LLock(t) ==
    /\ \/ /\ locks.pc[t] = "get_read"
          /\ CanRead(locks.store_write)
          /\ locks' = [locks EXCEPT !.pc[t] = "get_check",
                                    !.store_read = locks.store_read \cup {t}]
       \/ /\ locks.pc[t] \in {"remove_write", "set_store", "clean_store"}
          /\ CanWrite(locks.store_write, locks.store_read)
          /\ locks' = [locks EXCEPT
                          !.pc[t] = CASE locks.pc[t] = "remove_write" -> "remove_do"
                                      [] locks.pc[t] = "set_store" -> "set_expirations"
                                      [] locks.pc[t] = "clean_store" -> "clean_expirations",
                          !.store_write = {t}]
       \/ /\ locks.pc[t] \in {"set_expirations", "clean_expirations"}
          /\ CanWrite(locks.expirations_write, locks.expirations_read)
          /\ locks' = [locks EXCEPT
                          !.pc[t] = IF locks.pc[t] = "set_expirations"
                                    THEN "set_do" ELSE "clean_do",
                          !.expirations_write = {t}]
       \/ /\ locks.pc[t] = "peek_read"
          /\ CanRead(locks.expirations_write)
          /\ locks' = [locks EXCEPT !.pc[t] = "peek_do",
                                    !.expirations_read = locks.expirations_read \cup {t}]
    /\ UNCHANGED <<now, storeVars>>
    /\ LocksUnchanged

\* The code between the last lock taken and the return of the call, the
\* guards dropped at the end of their scope.  A get that finds its key
\* expired drops its read guard and awaits the write lock inside remove.
LRun(t) ==
    /\ \/ /\ locks.pc[t] = "get_check"
          /\ IF GetExpired(store, locks.key[t], now)
             THEN locks' = [locks EXCEPT
                              !.pc[t] = "remove_write",
                              !.store_read = IF GetDropsGuard
                                             THEN locks.store_read \ {t}
                                             ELSE locks.store_read]
             ELSE locks' = [locks EXCEPT !.pc[t] = "idle",
                                         !.store_read = locks.store_read \ {t}]
          /\ UNCHANGED storeVars
       \/ /\ locks.pc[t] = "remove_do"
          /\ store' = StoreRemove(store, locks.key[t])
          /\ locks' = [locks EXCEPT !.pc[t] = "idle",
                                    !.store_write = {},
                                    !.store_read = locks.store_read \ {t}]
          /\ UNCHANGED <<expirations, lastSet>>
       \/ /\ locks.pc[t] = "set_do"
          /\ LET s == StoreSet(store, expirations, locks.key[t],
                               locks.value[t], locks.expiry[t])
             IN  /\ store' = s.store
                 /\ expirations' = s.expirations
          /\ lastSet' = StoreInsert(lastSet, locks.key[t], locks.value[t],
                                    locks.expiry[t])
          /\ locks' = [locks EXCEPT !.pc[t] = "idle",
                                    !.store_write = {},
                                    !.expirations_write = {}]
       \/ /\ locks.pc[t] = "clean_do"
          /\ LET s == clean_expired_keys(store, expirations, now)
             IN  /\ store' = s.store
                 /\ expirations' = s.expirations
          /\ locks' = [locks EXCEPT !.pc[t] = "idle",
                                    !.store_write = {},
                                    !.expirations_write = {}]
          /\ UNCHANGED lastSet
       \/ /\ locks.pc[t] = "peek_do"
          /\ locks' = [locks EXCEPT !.pc[t] = "idle",
                                    !.expirations_read = locks.expirations_read \ {t}]
          /\ UNCHANGED storeVars
    /\ UNCHANGED now
    /\ LocksUnchanged

InitLocks ==
    /\ MasterInit
    /\ ReplicaInit
    /\ codec = NoTrip
    /\ master_replid = ReplIdA
    /\ locks = NoCalls
    /\ inputs = {}

NextLocks ==
    \/ LTick
    \/ \E t \in Tasks : LCall(t)
    \/ \E t \in Tasks : LLock(t)
    \/ \E t \in Tasks : LRun(t)

\* tokio runs every task that is ready, and its RwLock hands out guards in
\* the order they were asked for: a task that keeps waiting for a lock that
\* keeps becoming free gets it.
SpecLocks ==
    /\ InitLocks
    /\ [][NextLocks]_vars
    /\ \A t \in Tasks : SF_vars(LLock(t)) /\ WF_vars(LRun(t))

\* C33: the store's operations never deadlock: with the connection tasks
\* calling get and set and the reaper calling next_expiration and
\* clean_expired_keys at the same time, every call that has started
\* eventually has the locks it needs and returns.
C33_NoDeadlock ==
    \A t \in Tasks : (locks.pc[t] # "idle") ~> (locks.pc[t] = "idle")

\* C33's case: a connection's set holds the store's write lock and waits for
\* the index's, which the reaper holds to read, while the other connection's
\* get waits for the store's read lock.
C33_Witness ==
    \E c, d \in MConns :
        /\ locks.pc[c] = "set_expirations"
        /\ locks.pc[Reaper] = "peek_do"
        /\ locks.pc[d] = "get_read"
(***************************************************************************)
(* The read buffer between requests, checked under SpecConn.               *)
(***************************************************************************)
\* C34: the read buffer of a connection is cleared after every request, also
\* after one that failed to decode or to execute: whenever the task of a
\* connection waits for its next read, its buffer holds no byte of an
\* earlier request, so that the next command is decoded from the bytes of
\* its own read alone.
C34_BufferCleared ==
    \A c \in MConns : mpc[c] = "read" => mbuf[c] = Nuls(BufSize)
(***************************************************************************)
(* The port the replica announces, checked under SpecSlave.                *)
(***************************************************************************)
\* The port of the replica's own address (Slave::new's port, given with
\* --port), another one than the master's.
SlavePort == <<"6", "3", "8", "0">>

\* C35: the port a replica announces to its master in REPLCONF
\* listening-port is the port the replica itself listens on, not the port of
\* the upstream master: every REPLCONF listening-port it has sent carries
\* its own port.
C35_AnnouncesOwnPort ==
    \A i \in 1..Len(usent) :
        usent[i] # to_resp2(Replconf(<<Capa, Psync2>>)) =>
            usent[i] = to_resp2(Replconf(<<ListeningPort, SlavePort>>))
(***************************************************************************)
(* A SET with PX on a master with a registered replica, the clock running. *)
(***************************************************************************)
PxMillis == <<"1">>

ExpFrames ==
    { ArrayFrame(<<ADDSLAVE, AddSlaveWord, LiveAddr>>),
      ArrayFrame(<<SET, KeyK, ValB, PX, PxMillis>>) }

InitExp ==
    /\ MasterInit
    /\ ReplicaInit
    /\ codec = NoTrip
    /\ master_replid = ReplIdA
    /\ locks = NoCalls
    /\ inputs = ExpFrames

NextExp ==
    \/ Tick
    \/ \E c \in MConns : MRead(c)
    \/ \E c \in MConns : MReplicateNone(c)
    \/ \E c \in MConns : MReplicateBegin(c)
    \/ \E c \in MConns : MSendConnect(c)
    \/ \E c \in MConns : MRecv(c)
    \/ \E c \in MConns : MSendDone(c)
    \/ \E c \in MConns : MHandleSet(c)
    \/ \E c \in MConns : MHandleAddSlave(c)
    \/ \E c \in MConns : MRespond(c)
    \/ FRead

SpecExp == InitExp /\ [][NextExp]_vars

\* The task of connection c decodes a Set with an expiry in this step.
ParsesPx(c) ==
    /\ mpc[c] = "read"
    /\ mpc'[c] = "replicate"
    /\ mcmd'[c].exp # None

\* C37: the expiry of a Set is normalized once, at parse time, to the clock
\* at parse plus the PX millis; the store records exactly that timestamp;
\* and a replica that has acknowledged the propagated copy of the SET holds
\* the key with the same absolute expiry as the master's command.
C37_ExpiryNormalizedOnce ==
    /\ [][\A c \in MConns :
            /\ ParsesPx(c) => mcmd'[c].exp = Some(now + DigitsVal(PxMillis, 0))
            /\ (SetApplied(c) /\ mcmd[c].exp # None) =>
                  store'[mcmd[c].args[1]].expiry = mcmd[c].exp]_vars
    /\ [](\A c \in MConns :
            (mpc[c] = "respond" /\ mcmd[c].op = "Set" /\ mcmd[c].exp # None
               /\ \E i \in 1..Len(mouts[c]) : mouts[c][i] = "ok") =>
                /\ mcmd[c].args[1] \in DOMAIN sstore
                /\ sstore[mcmd[c].args[1]].expiry = mcmd[c].exp)
=============================================================================
